---- MODULE Spec2Model ----
(***************************************************************************)
(* The service-model builder (NewServiceInfoFromServiceConfig and its      *)
(* phases, src/go/configinfo/service_info.go) and the route generator      *)
(* (MakeRouteConfig, makeRouteTable) as a state machine.  One action per   *)
(* builder phase; the service description and the options are drawn in     *)
(* Init from bounded sets.                                                 *)
(*                                                                         *)
(* Encodings.  A selector "a.b.M" is the sequence of its dot-separated     *)
(* parts <<"a","b","M">>.  A Go pointer that may be nil is a sequence of   *)
(* length 0 (nil) or 1.  A Go map iterated with range is iterated in an    *)
(* arbitrary order, chosen with \E among the permutations of its keys.     *)
(***************************************************************************)
EXTENDS Integers, Sequences, FiniteSets, TLC

\* ----------------------------------------------------------------- bounds
MaxSystemParameterRules == 2
MaxBackendRules == 2
MaxHttpRules == 2
MaxFields == 2
MaxAuthRules == 2
MaxMetricCosts == 2

\* ---------------------------------------------------------------- helpers
SeqsUpTo(S, n) == UNION {[1..k -> S] : k \in 0..n}
Range(s) == {s[i] : i \in DOMAIN s}
Perms(S) == {f \in [1..Cardinality(S) -> S] :
               \A i, j \in 1..Cardinality(S) : i # j => f[i] # f[j]}
Last(s) == s[Len(s)]
Front(s) == SubSeq(s, 1, Len(s) - 1)
IsNil(p) == Len(p) = 0
Deref(p) == p[1]
Ptr(v) == <<v>>
Nil == <<>>

\* ------------------------------------------------- constants of package util
OPTIONS == "OPTIONS"
GET == "GET"
POST == "POST"
HttpMethodWildCard == "*"
GRPC == "GRPC"
HTTP1 == "HTTP1"
HTTP2 == "HTTP2"
EspOperation == "espv2_deployment"
AutogeneratedOperationPrefix == "ESPv2_Autogenerated"
TypeUrlPrefix == "type.googleapis.com/"
ApiKeyParameterName == "api_key"
\* util.DefaultResponseDeadline, in milliseconds
DefaultResponseDeadline == 15000

\* ------------------------------------------------------------ URI templates
\* A path string is [abs, segs]: abs says it starts with "/", segs are its
\* segments, each [t, s] with t in "lit", "var", "star", "dstar", "bad"
\* ("bad" is a segment no template grammar accepts, e.g. an unbalanced brace).
Lit(s) == [t |-> "lit", s |-> s]
Var(s) == [t |-> "var", s |-> s]
Star == [t |-> "star", s |-> "*"]
DStar == [t |-> "dstar", s |-> "**"]
BadSeg == [t |-> "bad", s |-> "{"]
AbsPath(segs) == [abs |-> TRUE, segs |-> segs]
RelPath(segs) == [abs |-> FALSE, segs |-> segs]

\* httppattern.ParseUriTemplate: [err, t]; t is the *UriTemplate (nil on error).
ParseUriTemplate(path) ==
  LET segs == path.segs
      vars == {i \in DOMAIN segs : segs[i].t = "var"}
      malformed ==
        \/ ~path.abs
        \/ \E i \in DOMAIN segs : segs[i].t = "bad"
        \/ \E i \in DOMAIN segs : segs[i].t = "dstar" /\ i # Len(segs)
        \/ \E i, j \in vars : i # j /\ segs[i].s = segs[j].s
  IN  IF malformed THEN [err |-> TRUE, t |-> Nil]
      ELSE [err |-> FALSE, t |-> Ptr([Origin |-> path, Segs |-> segs])]

\* UriTemplate.Regex: one regular expression for the whole path; a capture
\* compiles to its subpattern, so the variable's name is not part of it.
RegexOfSeg(seg) ==
  CASE seg.t = "lit" -> seg.s
    [] seg.t = "var" -> "[^/]+"
    [] seg.t = "star" -> "[^/]+"
    [] OTHER -> ".*"
Regex(t) == [i \in DOMAIN t.Segs |-> RegexOfSeg(t.Segs[i])]

\* UriTemplate.Variables: the names of the captures, in order.
Variables(t) ==
  LET F[i \in 0..Len(t.Segs)] ==
        IF i = 0 THEN <<>>
        ELSE IF t.Segs[i].t = "var" THEN Append(F[i - 1], t.Segs[i].s)
        ELSE F[i - 1]
  IN  F[Len(t.Segs)]

\* UriTemplate.IsExactMatch: no wildcard and no capture.
IsExactMatch(t) == \A i \in DOMAIN t.Segs : t.Segs[i].t = "lit"

\* UriTemplate.ExactMatchString(trailingSlash): the template's text, captures
\* written {name}; the root path has one form only.
ExactMatchString(t, trailingSlash) ==
  [segs |-> [i \in DOMAIN t.Segs |->
               IF t.Segs[i].t = "var" THEN "{" \o t.Segs[i].s \o "}"
               ELSE t.Segs[i].s],
   slash |-> trailingSlash /\ Len(t.Segs) > 0]

\* UriTemplate.ReplaceVariableField(map): every capture whose name is a key of
\* the map is renamed to the mapped value (one pass); Origin is kept.
ReplaceVariableField(t, snakeNameToJsonName) ==
  [t EXCEPT !.Segs = [i \in DOMAIN t.Segs |->
     IF t.Segs[i].t = "var" /\ t.Segs[i].s \in DOMAIN snakeNameToJsonName
     THEN Var(snakeNameToJsonName[t.Segs[i].s])
     ELSE t.Segs[i]]]

\* ------------------------------------------------------------ package util
\* An address string is [ok, scheme, hostname, port, path]; port 0 means the
\* string names no port, ~ok that it is no URI.
\* util.ParseURI: the port defaults from the scheme.
ParseURI(a) ==
  IF ~a.ok THEN [err |-> TRUE, scheme |-> "", hostname |-> "", port |-> 0, path |-> ""]
  ELSE [err |-> FALSE, scheme |-> a.scheme, hostname |-> a.hostname,
        port |-> IF a.port # 0 THEN a.port
                 ELSE IF a.scheme \in {"https", "grpcs"} THEN 443 ELSE 80,
        path |-> a.path]

\* util.ParseBackendProtocol(scheme, httpProtocol): [err, protocol, tls].
ParseBackendProtocol(scheme, httpProtocol) ==
  CASE scheme = "http" ->
         [err |-> FALSE, protocol |-> IF httpProtocol = "h2" THEN HTTP2 ELSE HTTP1, tls |-> FALSE]
    [] scheme = "https" ->
         [err |-> FALSE, protocol |-> IF httpProtocol = "h2" THEN HTTP2 ELSE HTTP1, tls |-> TRUE]
    [] scheme = "grpc" -> [err |-> FALSE, protocol |-> GRPC, tls |-> FALSE]
    [] scheme = "grpcs" -> [err |-> FALSE, protocol |-> GRPC, tls |-> TRUE]
    [] OTHER -> [err |-> TRUE, protocol |-> "", tls |-> FALSE]

\* util.BackendClusterName(address): "backend-cluster-" + address.  A cluster
\* name is kept as its parts; port 0 stands for a name without ":port".
BackendClusterName(hostname, port) ==
  [prefix |-> "backend-cluster-", hostname |-> hostname, port |-> port]

\* ------------------------------------------------------------- ServiceInfo
VARIABLES
  serviceConfig,          \* the *confpb.Service passed in (the build writes provider.JwksUri)
  opts,                   \* the options.ConfigGeneratorOptions passed in (by value)
  pc,                     \* the phase NewServiceInfoFromServiceConfig is about to run
  ran,                    \* the phases that have run, in order
  ret,                    \* what the constructor returned: "pending", "nil", "serviceInfo"
  err,                    \* the phase whose error was returned ("" if none)
  Options,                \* ServiceInfo.Options (processHttpRule normalises Healthz)
  ApiNames,
  Operations,
  Methods,
  AllTranscodingIgnoredQueryParams,
  AllowCors,
  AccessToken,
  GrpcSupportRequired,
  LocalBackendCluster,
  RemoteBackendClusters,
  routeConfig,            \* what MakeRouteConfig returned
  build,                  \* 1 for the first build on this input, 2 for the second
  first                   \* the first build's outputs, kept for comparison

input == <<serviceConfig, opts>>
model == <<Options, ApiNames, Operations, Methods, AllTranscodingIgnoredQueryParams,
           AllowCors, AccessToken, GrpcSupportRequired, LocalBackendCluster,
           RemoteBackendClusters>>
vars == <<serviceConfig, opts, pc, ran, ret, err, Options, ApiNames, Operations, Methods,
          AllTranscodingIgnoredQueryParams, AllowCors, AccessToken, GrpcSupportRequired,
          LocalBackendCluster, RemoteBackendClusters, routeConfig, build, first>>

\* The zero MethodInfo that getOrCreateMethod allocates.
NewMethodInfo(shortName, apiName) ==
  [ShortName |-> shortName, ApiName |-> apiName, ApiVersion |-> "",
   HttpRule |-> <<>>, BackendInfo |-> Nil, IsStreaming |-> FALSE,
   RequireAuth |-> FALSE, AllowUnregisteredCalls |-> FALSE,
   SkipServiceControl |-> FALSE, ApiKeyLocations |-> <<>>, MetricCosts |-> <<>>,
   IsGenerated |-> FALSE, GeneratedCorsMethod |-> Nil, RequestTypeName |-> ""]

\* getOrCreateMethod putting a new name at the head of Operations.
getOrCreateMethodPrepend(st, name) ==
  IF name \in DOMAIN st.Methods THEN [st EXCEPT !.err = FALSE]
  ELSE IF Len(name) <= 1 THEN [st EXCEPT !.err = TRUE]
  ELSE [st EXCEPT !.err = FALSE,
                  !.Methods = (name :> NewMethodInfo(Last(name), Front(name))) @@ st.Methods,
                  !.Operations = <<name>> \o st.Operations]

\* getOrCreateMethod(name) on the pair (Methods, Operations) held in st.
getOrCreateMethod(st, name) ==
  IF name \in DOMAIN st.Methods THEN [st EXCEPT !.err = FALSE]
  ELSE IF Len(name) <= 1 THEN [st EXCEPT !.err = TRUE]
  ELSE [st EXCEPT !.err = FALSE,
                  !.Methods = (name :> NewMethodInfo(Last(name), Front(name))) @@ st.Methods,
                  !.Operations = Append(st.Operations, name)]

\* ServiceInfo.LocalBackendClusterName
LocalBackendClusterName(name) == BackendClusterName(name \o "_local", 0)

\* The phases, in the order NewServiceInfoFromServiceConfig calls them.
PhaseOrder ==
  <<"buildLocalBackend", "processEndpoints", "processApis", "processQuota",
    "processBackendRule", "processHttpRule", "processUsageRule", "processAccessToken",
    "processTypes", "addGrpcHttpRules", "processTranscodingIgnoredQueryParams",
    "processApiKeyLocations", "processEmptyJwksUriByOpenID",
    "processLocalBackendOperations", "processAuthRequirement">>

PhaseIndex(p) == CHOOSE i \in DOMAIN PhaseOrder : PhaseOrder[i] = p

\* Where control goes after phase p returned nil.
AfterPhase(p) ==
  IF PhaseIndex(p) = Len(PhaseOrder) THEN "done" ELSE PhaseOrder[PhaseIndex(p) + 1]

\* A builder that notes a phase's error and goes on to the next phase.
ReturnKeepGoing(p, failed) ==
  /\ ran' = Append(ran, p)
  /\ pc' = AfterPhase(p)
  /\ err' = IF failed /\ err = "" THEN p ELSE err
  /\ ret' = IF AfterPhase(p) = "done" THEN "serviceInfo" ELSE ret

\* `if err := phase(); err != nil { return nil, err }` and the final
\* `return serviceInfo, nil`: the control part of one phase's step.
Return(p, failed) ==
  /\ ran' = Append(ran, p)
  /\ IF failed
     THEN pc' = "error" /\ err' = p /\ ret' = "nil"
     ELSE /\ pc' = AfterPhase(p)
          /\ err' = err
          /\ ret' = IF AfterPhase(p) = "done" THEN "serviceInfo" ELSE ret

\* A nil dereference inside phase p: the goroutine panics, nothing is returned.
Panic(p) ==
  /\ ran' = Append(ran, p)
  /\ pc' = "panic" /\ err' = err /\ ret' = ret

\* The state a build starts in: &ServiceInfo{...} with empty maps.
Construct ==
  /\ Options' = opts
  /\ ApiNames' = <<>>
  /\ Operations' = <<>>
  /\ Methods' = <<>>
  /\ AllTranscodingIgnoredQueryParams' = {}
  /\ AllowCors' = FALSE
  /\ AccessToken' = ""
  /\ GrpcSupportRequired' = FALSE
  /\ LocalBackendCluster' = Nil
  /\ RemoteBackendClusters' = <<>>

\* NewServiceInfoFromServiceConfig, up to the first phase.
NewServiceInfo ==
  /\ pc = "start"
  /\ Construct
  /\ ran' = ran
  /\ IF Len(serviceConfig.apis) = 0
     THEN pc' = "error" /\ err' = "start" /\ ret' = "nil"
     ELSE pc' = PhaseOrder[1] /\ err' = err /\ ret' = ret
  /\ UNCHANGED <<input, routeConfig, build, first>>

buildLocalBackendResult(o) ==
  LET u == ParseURI(o.BackendAddress)
      p == ParseBackendProtocol(u.scheme, "")
  IN  IF u.err \/ p.err THEN [err |-> TRUE, grpc |-> FALSE, cluster |-> Nil]
      ELSE [err |-> FALSE, grpc |-> p.protocol = GRPC,
            cluster |-> Ptr([ClusterName |-> LocalBackendClusterName(serviceConfig.name),
                             UseTLS |-> p.tls, Protocol |-> p.protocol,
                             Hostname |-> u.hostname, Port |-> u.port])]

buildLocalBackend ==
  /\ pc = "buildLocalBackend"
  /\ LET r == buildLocalBackendResult(Options)
     IN  /\ Return("buildLocalBackend", r.err)
         /\ GrpcSupportRequired' = (GrpcSupportRequired \/ r.grpc)
         /\ LocalBackendCluster' = r.cluster
  /\ UNCHANGED <<input, Options, ApiNames, Operations, Methods,
                 AllTranscodingIgnoredQueryParams, AllowCors, AccessToken,
                 RemoteBackendClusters, routeConfig, build, first>>

\* A processEndpoints that takes allow_cors from any endpoints entry.
processEndpointsAnyName(sc) ==
  \E i \in DOMAIN sc.endpoints : sc.endpoints[i].allow_cors

processEndpointsResult(sc) ==
  \E i \in DOMAIN sc.endpoints :
     sc.endpoints[i].name = sc.name /\ sc.endpoints[i].allow_cors

processEndpoints ==
  /\ pc = "processEndpoints"
  /\ Return("processEndpoints", FALSE)
  /\ AllowCors' = (AllowCors \/ processEndpointsResult(serviceConfig))
  /\ UNCHANGED <<input, Options, ApiNames, Operations, Methods,
                 AllTranscodingIgnoredQueryParams, AccessToken, GrpcSupportRequired,
                 LocalBackendCluster, RemoteBackendClusters, routeConfig, build, first>>

\* All (api, method) pairs of the service description, in order.
ApiMethods(sc) ==
  LET F[i \in 0..Len(sc.apis)] ==
        IF i = 0 THEN <<>>
        ELSE F[i - 1] \o [j \in DOMAIN sc.apis[i].methods |->
                            [api |-> sc.apis[i], method |-> sc.apis[i].methods[j]]]
  IN  F[Len(sc.apis)]

\* The body of processApis' inner loop for one (api, method).
processApiMethod(st, api, method) ==
  LET selector == api.name \o <<method.name>>
      c == getOrCreateMethod(st, selector)
      mi == c.Methods[selector]
      mi1 == [mi EXCEPT
                !.IsStreaming = mi.IsStreaming \/ method.request_streaming
                                               \/ method.response_streaming,
                !.ApiVersion = api.version,
                !.RequestTypeName =
                   IF method.request_type_url.prefix = TypeUrlPrefix
                   THEN method.request_type_url.name ELSE mi.RequestTypeName]
  IN  [c EXCEPT !.Methods = [c.Methods EXCEPT ![selector] = mi1]]

processApisResult(st, sc) ==
  LET ams == ApiMethods(sc)
      F[i \in 0..Len(ams)] ==
        IF i = 0 THEN st ELSE processApiMethod(F[i - 1], ams[i].api, ams[i].method)
  IN  F[Len(ams)]

processApis ==
  /\ pc = "processApis"
  /\ Return("processApis", FALSE)
  /\ LET r == processApisResult([err |-> FALSE, Methods |-> Methods,
                                 Operations |-> Operations], serviceConfig)
     IN  /\ Methods' = r.Methods
         /\ Operations' = r.Operations
  /\ ApiNames' = ApiNames \o [i \in DOMAIN serviceConfig.apis |-> serviceConfig.apis[i].name]
  /\ UNCHANGED <<input, Options, AllTranscodingIgnoredQueryParams, AllowCors,
                 AccessToken, GrpcSupportRequired, LocalBackendCluster,
                 RemoteBackendClusters, routeConfig, build, first>>

\* processQuota.  metric_costs is a Go map: `range` visits its keys in an
\* arbitrary order, so the MetricCosts slice may come out in any order.  orders[i]
\* is the order in which rule i's map is visited.  Methods[selector] is
\* dereferenced without a nil check.
MetricCostsOf(metricRule, order) ==
  [k \in DOMAIN order |-> [Name |-> order[k], Cost |-> metricRule.metric_costs[order[k]]]]

processQuotaResult(M, metricRules, orders) ==
  LET F[i \in 0..Len(metricRules)] ==
        IF i = 0 THEN [panic |-> FALSE, Methods |-> M]
        ELSE LET p == F[i - 1]
                 sel == metricRules[i].selector
             IN  IF p.panic THEN p
                 ELSE IF sel \notin DOMAIN p.Methods THEN [p EXCEPT !.panic = TRUE]
                 ELSE [p EXCEPT !.Methods[sel].MetricCosts =
                                   MetricCostsOf(metricRules[i], orders[i])]
  IN  F[Len(metricRules)]

MapOrders(metricRules) ==
  {o \in [DOMAIN metricRules ->
            UNION {Perms(DOMAIN metricRules[i].metric_costs) : i \in DOMAIN metricRules}] :
     \A i \in DOMAIN metricRules : o[i] \in Perms(DOMAIN metricRules[i].metric_costs)}

processQuota ==
  /\ pc = "processQuota"
  /\ \E orders \in MapOrders(serviceConfig.quota) :
       LET r == processQuotaResult(Methods, serviceConfig.quota, orders)
       IN  /\ IF r.panic THEN Panic("processQuota") ELSE Return("processQuota", FALSE)
           /\ Methods' = r.Methods
  /\ UNCHANGED <<input, Options, ApiNames, Operations, AllTranscodingIgnoredQueryParams,
                 AllowCors, AccessToken, GrpcSupportRequired, LocalBackendCluster,
                 RemoteBackendClusters, routeConfig, build, first>>

\* getJwtAudienceFromBackendAddr: the error of ParseBackendProtocol is dropped.
getJwtAudienceFromBackendAddr(scheme, hostname) ==
  IF ParseBackendProtocol(scheme, "").tls THEN "https://" \o hostname
  ELSE "http://" \o hostname

\* determineBackendAuthJwtAud: the switch on the rule's authentication oneof.
determineBackendAuthJwtAud(r, scheme, hostname) ==
  CASE r.authentication.kind = "jwt_audience" -> r.authentication.jwt_audience
    [] r.authentication.kind = "disable_auth" ->
         IF r.authentication.disable_auth THEN ""
         ELSE getJwtAudienceFromBackendAddr(scheme, hostname)
    [] OTHER -> IF IsNil(r.address) THEN ""
                ELSE getJwtAudienceFromBackendAddr(scheme, hostname)

\* A deadline cut to whole milliseconds instead of rounded.
BackendDeadlineTruncated(r) ==
  IF r.deadline = 0 THEN DefaultResponseDeadline
  ELSE IF r.deadline < 0 THEN DefaultResponseDeadline
  ELSE r.deadline \div 10

\* The deadline of a backend rule (r.deadline is in tenths of a millisecond,
\* so that math.Round(r.Deadline * 1000) has something to round).
BackendDeadline(r) ==
  IF r.deadline = 0 THEN DefaultResponseDeadline
  ELSE IF r.deadline < 0 THEN DefaultResponseDeadline
  ELSE (r.deadline + 5) \div 10

\* addBackendInfoToMethod on st = [err, Methods, Operations, ...].
addBackendInfoToMethod(st, r, scheme, hostname, path, backendClusterName, o) ==
  LET c == getOrCreateMethod(st, r.selector)
      path1 == IF path = "" /\ r.path_translation = "CONSTANT_ADDRESS" THEN "/" ELSE path
      aud == determineBackendAuthJwtAud(r, scheme, hostname)
      jwtAud == IF aud # "" /\ o.NonGCP THEN "" ELSE aud
      info == [ClusterName |-> backendClusterName, Path |-> path1, Hostname |-> hostname,
               TranslationType |-> r.path_translation, Deadline |-> BackendDeadline(r),
               RetryOns |-> o.BackendRetryOns, RetryNum |-> o.BackendRetryNum,
               JwtAudience |-> jwtAud]
  IN  IF c.err THEN c
      ELSE [c EXCEPT !.Methods[r.selector].BackendInfo = Ptr(info)]

\* processBackendRule's loop body without the look-up in backendRoutingClustersMap:
\* every rule with an address allocates a cluster.
processOneBackendRuleNoDedup(st, r, o) ==
  IF IsNil(r.address)
  THEN addBackendInfoToMethod(st, r, "", "", "", LocalBackendClusterName(serviceConfig.name), o)
  ELSE
    LET u == ParseURI(Deref(r.address))
        p == ParseBackendProtocol(u.scheme, r.protocol)
        backendClusterName == BackendClusterName(u.hostname, u.port)
        st1 == [st EXCEPT
                  !.GrpcSupportRequired = st.GrpcSupportRequired \/ p.protocol = GRPC,
                  !.RemoteBackendClusters =
                     Append(st.RemoteBackendClusters,
                            [ClusterName |-> backendClusterName, UseTLS |-> p.tls,
                             Protocol |-> p.protocol, Hostname |-> u.hostname,
                             Port |-> u.port])]
    IN  IF u.err \/ p.err THEN [st EXCEPT !.err = TRUE]
        ELSE addBackendInfoToMethod(st1, r, u.scheme, u.hostname, u.path,
                                    backendClusterName, o)

\* The body of processBackendRule's loop for one rule; st also carries
\* RemoteBackendClusters, GrpcSupportRequired and backendRoutingClustersMap.
processOneBackendRule(st, r, o) ==
  IF IsNil(r.address)
  THEN addBackendInfoToMethod(st, r, "", "", "", LocalBackendClusterName(serviceConfig.name), o)
  ELSE
    LET u == ParseURI(Deref(r.address))
        address == [hostname |-> u.hostname, port |-> u.port]
        exist == address \in DOMAIN st.backendRoutingClustersMap
        p == ParseBackendProtocol(u.scheme, r.protocol)
        backendClusterName == BackendClusterName(u.hostname, u.port)
        st1 == IF exist THEN st
               ELSE [st EXCEPT
                       !.GrpcSupportRequired = st.GrpcSupportRequired \/ p.protocol = GRPC,
                       !.RemoteBackendClusters =
                          Append(st.RemoteBackendClusters,
                                 [ClusterName |-> backendClusterName, UseTLS |-> p.tls,
                                  Protocol |-> p.protocol, Hostname |-> u.hostname,
                                  Port |-> u.port]),
                       !.backendRoutingClustersMap =
                          (address :> backendClusterName) @@ st.backendRoutingClustersMap]
    IN  IF u.err THEN [st EXCEPT !.err = TRUE]
        ELSE IF ~exist /\ p.err THEN [st EXCEPT !.err = TRUE]
        ELSE addBackendInfoToMethod(st1, r, u.scheme, u.hostname, u.path,
                                    st1.backendRoutingClustersMap[address], o)

processBackendRuleResult(st, rules, o) ==
  LET F[i \in 0..Len(rules)] ==
        IF i = 0 THEN st
        ELSE IF F[i - 1].err THEN F[i - 1]
        ELSE processOneBackendRule(F[i - 1], rules[i], o)
  IN  F[Len(rules)]

processBackendRule ==
  /\ pc = "processBackendRule"
  /\ LET r == processBackendRuleResult(
                [err |-> FALSE, Methods |-> Methods, Operations |-> Operations,
                 GrpcSupportRequired |-> GrpcSupportRequired,
                 RemoteBackendClusters |-> RemoteBackendClusters,
                 backendRoutingClustersMap |-> <<>>],
                serviceConfig.backend, Options)
     IN  /\ Return("processBackendRule", r.err)
         /\ Methods' = r.Methods
         /\ Operations' = r.Operations
         /\ GrpcSupportRequired' = r.GrpcSupportRequired
         /\ RemoteBackendClusters' = r.RemoteBackendClusters
  /\ UNCHANGED <<input, Options, ApiNames, AllTranscodingIgnoredQueryParams, AllowCors,
                 AccessToken, LocalBackendCluster, routeConfig, build, first>>

\* The verb of an HTTP rule's pattern oneof ("" for a kind addHttpRule's switch
\* does not know).
HttpMethodOf(pattern) ==
  CASE pattern.kind = "get" -> GET
    [] pattern.kind = "put" -> "PUT"
    [] pattern.kind = "post" -> POST
    [] pattern.kind = "delete" -> "DELETE"
    [] pattern.kind = "patch" -> "PATCH"
    [] pattern.kind = "custom" -> pattern.custom_kind
    [] OTHER -> ""

\* addHttpRule(method, r, addedRouteMatchWithOptionsSet) on st = [err, Methods,
\* Operations, added]; sel is the key of `method` in Methods.
addHttpRule(st, sel, pattern) ==
  LET parsed == ParseUriTemplate(pattern.path)
      httpMethod == HttpMethodOf(pattern)
      httpRule == [HttpMethod |-> httpMethod, UriTemplate |-> parsed.t]
  IN  IF pattern.kind \notin {"get", "put", "post", "delete", "patch", "custom"}
      THEN [st EXCEPT !.err = TRUE]
      ELSE IF parsed.err THEN [st EXCEPT !.err = TRUE]
      ELSE [st EXCEPT
              !.added = IF httpMethod = OPTIONS
                        THEN st.added \cup {Regex(Deref(parsed.t))} ELSE st.added,
              !.Methods[sel].HttpRule = Append(st.Methods[sel].HttpRule, httpRule)]

\* The name addOptionMethod gives the generated CORS method of `originalMethod`.
genOperation(originalMethod) ==
  originalMethod.ApiName
    \o <<AutogeneratedOperationPrefix \o "_CORS_" \o originalMethod.ShortName>>

\* addOptionMethod(originalMethod, httpRule); orig is the key of originalMethod.
addOptionMethod(st, orig, httpRule) ==
  LET gen == genOperation(st.Methods[orig])
      c == getOrCreateMethod(st, gen)
      originalMethod == c.Methods[orig]
      m1 == [c.Methods[gen] EXCEPT
               !.ApiVersion = originalMethod.ApiVersion,
               !.BackendInfo = originalMethod.BackendInfo,
               !.IsGenerated = TRUE,
               !.HttpRule = Append(c.Methods[gen].HttpRule, httpRule)]
      M1 == [c.Methods EXCEPT ![gen] = m1]
  IN  IF httpRule.HttpMethod # OPTIONS THEN [st EXCEPT !.err = TRUE]
      ELSE IF c.err THEN c
      ELSE [c EXCEPT !.Methods = [M1 EXCEPT ![orig].GeneratedCorsMethod = Ptr(gen)]]

\* First loop of processHttpRule: one rule and its additional_bindings.
addRuleAndBindings(st, rule) ==
  LET c == getOrCreateMethod(st, rule.selector)
      bindings == <<rule.pattern>> \o rule.additional_bindings
      F[i \in 0..Len(bindings)] ==
        IF i = 0 THEN c
        ELSE IF F[i - 1].err THEN F[i - 1]
        ELSE addHttpRule(F[i - 1], rule.selector, bindings[i])
  IN  IF c.err THEN c ELSE F[Len(bindings)]

\* Second loop of processHttpRule, for one rule r: every non-OPTIONS pattern of
\* Methods[r.selector] whose regex has no OPTIONS yet gets one on the generated
\* CORS method.  `range method.HttpRule` walks the slice as it was on entry.
addCorsForRule(st, sel) ==
  LET rules == st.Methods[sel].HttpRule
      F[i \in 0..Len(rules)] ==
        IF i = 0 THEN st
        ELSE LET p == F[i - 1]
                 httpRule == rules[i]
                 newHttpRule == [HttpMethod |-> OPTIONS,
                                 UriTemplate |->
                                   ParseUriTemplate(Deref(httpRule.UriTemplate).Origin).t]
                 routeMatch == Regex(Deref(httpRule.UriTemplate))
                 a == addOptionMethod(p, sel, newHttpRule)
             IN  IF p.err THEN p
                 ELSE IF httpRule.HttpMethod = OPTIONS THEN p
                 ELSE IF routeMatch \in p.added THEN p
                 ELSE IF a.err THEN a
                 ELSE [a EXCEPT !.added = a.added \cup {routeMatch}]
  IN  F[Len(rules)]

HealthCheckOperation == <<EspOperation, AutogeneratedOperationPrefix \o "_HealthCheck">>

\* Last part of processHttpRule: the health-check method (Healthz is non-empty).
\* The error of ParseUriTemplate is dropped.
addHealthCheck(st, healthz) ==
  LET c == getOrCreateMethod(st, HealthCheckOperation)
      hc == c.Methods[HealthCheckOperation]
      hc1 == [hc EXCEPT
                !.HttpRule = Append(hc.HttpRule,
                                    [HttpMethod |-> GET,
                                     UriTemplate |-> ParseUriTemplate(healthz).t]),
                !.SkipServiceControl = TRUE,
                !.IsGenerated = TRUE]
  IN  IF c.err THEN c ELSE [c EXCEPT !.Methods[HealthCheckOperation] = hc1]

\* Options.Healthz with a leading "/" (fmt.Sprintf("/%s", ...) when it has none).
NormalizedHealthz(healthz) == [healthz EXCEPT !.abs = TRUE]

processHttpRuleResult(st, rules, allowCors, healthz) ==
  LET A[i \in 0..Len(rules)] ==
        IF i = 0 THEN st
        ELSE IF A[i - 1].err THEN A[i - 1]
        ELSE addRuleAndBindings(A[i - 1], rules[i])
      a == A[Len(rules)]
      B[i \in 0..Len(rules)] ==
        IF i = 0 THEN a
        ELSE IF B[i - 1].err THEN B[i - 1]
        ELSE addCorsForRule(B[i - 1], rules[i].selector)
      b == IF a.err \/ ~allowCors THEN a ELSE B[Len(rules)]
  IN  IF b.err \/ IsNil(healthz) THEN b
      ELSE addHealthCheck(b, NormalizedHealthz(Deref(healthz)))

processHttpRule ==
  /\ pc = "processHttpRule"
  /\ LET r == processHttpRuleResult(
                [err |-> FALSE, Methods |-> Methods, Operations |-> Operations,
                 added |-> {}],
                serviceConfig.http, AllowCors, Options.Healthz)
     IN  /\ Return("processHttpRule", r.err)
         /\ Methods' = r.Methods
         /\ Operations' = r.Operations
         \* Healthz is rewritten when the health-check block is reached
         /\ Options' = IF ~IsNil(Options.Healthz) /\ ~r.err
                       THEN [Options EXCEPT
                               !.Healthz = Ptr(NormalizedHealthz(Deref(Options.Healthz)))]
                       ELSE Options
  /\ UNCHANGED <<input, ApiNames, AllTranscodingIgnoredQueryParams, AllowCors,
                 AccessToken, GrpcSupportRequired, LocalBackendCluster,
                 RemoteBackendClusters, routeConfig, build, first>>

processUsageRuleResult(st, rules) ==
  LET F[i \in 0..Len(rules)] ==
        IF i = 0 THEN st
        ELSE LET p == F[i - 1]
                 c == getOrCreateMethod(p, rules[i].selector)
             IN  IF p.err THEN p
                 ELSE IF c.err THEN c
                 ELSE [c EXCEPT
                         !.Methods[rules[i].selector].AllowUnregisteredCalls =
                            rules[i].allow_unregistered_calls,
                         !.Methods[rules[i].selector].SkipServiceControl =
                            rules[i].skip_service_control]
  IN  F[Len(rules)]

processUsageRule ==
  /\ pc = "processUsageRule"
  /\ LET r == processUsageRuleResult(
                [err |-> FALSE, Methods |-> Methods, Operations |-> Operations],
                serviceConfig.usage)
     IN  /\ Return("processUsageRule", r.err)
         /\ Methods' = r.Methods
         /\ Operations' = r.Operations
  /\ UNCHANGED <<input, Options, ApiNames, AllTranscodingIgnoredQueryParams, AllowCors,
                 AccessToken, GrpcSupportRequired, LocalBackendCluster,
                 RemoteBackendClusters, routeConfig, build, first>>

\* processAccessToken: the token agent when a service-account key is given,
\* the metadata server otherwise.
processAccessTokenResult(o) ==
  IF o.ServiceAccountKey # "" THEN "token-agent-cluster" ELSE "metadata-cluster"

processAccessToken ==
  /\ pc = "processAccessToken"
  /\ Return("processAccessToken", FALSE)
  /\ AccessToken' = processAccessTokenResult(Options)
  /\ UNCHANGED <<input, Options, ApiNames, Operations, Methods,
                 AllTranscodingIgnoredQueryParams, AllowCors, GrpcSupportRequired,
                 LocalBackendCluster, RemoteBackendClusters, routeConfig, build, first>>

\* processTypes, the map from type name to type: a later type of the same name
\* replaces an earlier one.
typesByTypeName(types) ==
  LET F[i \in 0..Len(types)] ==
        IF i = 0 THEN <<>>
        ELSE (types[i].name :> types[i]) @@ F[i - 1]
  IN  F[Len(types)]

\* processTypes, the snake-name to JSON-name map of one request type: [err, map].
\* A field whose json_name equals its name is skipped before any comparison.
snakeToJsonOf(requestType) ==
  LET fields == requestType.fields
      F[i \in 0..Len(fields)] ==
        IF i = 0 THEN [err |-> FALSE, map |-> <<>>]
        ELSE LET p == F[i - 1]
                 field == fields[i]
             IN  IF p.err THEN p
                 ELSE IF field.name = field.json_name THEN p
                 ELSE IF field.name \in DOMAIN p.map /\ p.map[field.name] # field.json_name
                 THEN [p EXCEPT !.err = TRUE]
                 ELSE [p EXCEPT !.map = (field.name :> field.json_name) @@ p.map]
  IN  F[Len(fields)]

\* processTypes' closure snakeNameToJsonNameForUriTemplates on one method.
snakeNameToJsonNameForUriTemplates(m, snakeNameToJsonName) ==
  [m EXCEPT !.HttpRule = [i \in DOMAIN m.HttpRule |->
     IF IsNil(m.HttpRule[i].UriTemplate) THEN m.HttpRule[i]
     ELSE [m.HttpRule[i] EXCEPT
             !.UriTemplate = Ptr(ReplaceVariableField(Deref(m.HttpRule[i].UriTemplate),
                                                      snakeNameToJsonName))]]]

\* A processTypes loop body that leaves the generated CORS method as it is.
processTypeOfNoCors(M, operation, byName) ==
  LET mi == M[operation]
      stj == snakeToJsonOf(byName[mi.RequestTypeName])
      M1 == [M EXCEPT ![operation] = snakeNameToJsonNameForUriTemplates(mi, stj.map)]
  IN  IF mi.RequestTypeName = "" THEN [err |-> FALSE, Methods |-> M]
      ELSE IF mi.RequestTypeName \notin DOMAIN byName THEN [err |-> FALSE, Methods |-> M]
      ELSE IF stj.err THEN [err |-> TRUE, Methods |-> M]
      ELSE IF DOMAIN stj.map = {} THEN [err |-> FALSE, Methods |-> M]
      ELSE [err |-> FALSE, Methods |-> M1]

\* The body of processTypes' loop for the method `operation`: [err, Methods].
processTypeOf(M, operation, byName) ==
  LET mi == M[operation]
      stj == snakeToJsonOf(byName[mi.RequestTypeName])
      M1 == [M EXCEPT ![operation] = snakeNameToJsonNameForUriTemplates(mi, stj.map)]
      cors == Deref(mi.GeneratedCorsMethod)
      M2 == IF IsNil(mi.GeneratedCorsMethod) THEN M1
            ELSE [M1 EXCEPT ![cors] = snakeNameToJsonNameForUriTemplates(M1[cors], stj.map)]
  IN  IF mi.RequestTypeName = "" THEN [err |-> FALSE, Methods |-> M]
      ELSE IF mi.RequestTypeName \notin DOMAIN byName THEN [err |-> FALSE, Methods |-> M]
      ELSE IF stj.err THEN [err |-> TRUE, Methods |-> M]
      ELSE IF DOMAIN stj.map = {} THEN [err |-> FALSE, Methods |-> M]
      ELSE [err |-> FALSE, Methods |-> M2]

\* processTypes with the Methods map visited in the order `order`.
processTypesResult(M, types, order) ==
  LET byName == typesByTypeName(types)
      F[i \in 0..Len(order)] ==
        IF i = 0 THEN [err |-> FALSE, Methods |-> M]
        ELSE IF F[i - 1].err THEN F[i - 1]
        ELSE processTypeOf(F[i - 1].Methods, order[i], byName)
  IN  F[Len(order)]

\* The methods processTypes' loop does not skip with `continue`.  The visit of
\* any other method changes nothing, so only the relative order of these counts.
MethodsWithRequestType(M, types) ==
  {m \in DOMAIN M : M[m].RequestTypeName # ""
                     /\ M[m].RequestTypeName \in DOMAIN typesByTypeName(types)}

processTypes ==
  /\ pc = "processTypes"
  /\ \E order \in Perms(MethodsWithRequestType(Methods, serviceConfig.types)) :
       LET r == processTypesResult(Methods, serviceConfig.types, order)
       IN  /\ Return("processTypes", r.err)
           /\ Methods' = r.Methods
  /\ UNCHANGED <<input, Options, ApiNames, Operations, AllTranscodingIgnoredQueryParams,
                 AllowCors, AccessToken, GrpcSupportRequired, LocalBackendCluster,
                 RemoteBackendClusters, routeConfig, build, first>>

\* fmt.Sprintf of an api name: its parts joined with ".".
JoinDots(name) ==
  LET F[i \in 1..Len(name)] == IF i = 1 THEN name[1] ELSE F[i - 1] \o "." \o name[i]
  IN  IF Len(name) = 0 THEN "" ELSE F[Len(name)]

\* The body of addGrpcHttpRules' loop for one (api, method).
addGrpcHttpRule(st, api, method) ==
  LET selector == api.name \o <<method.name>>
      c == getOrCreateMethod(st, selector)
      path == AbsPath(<<Lit(JoinDots(api.name)), Lit(method.name)>>)
      parsed == ParseUriTemplate(path)
  IN  IF parsed.err THEN [st EXCEPT !.err = TRUE]
      ELSE [c EXCEPT !.err = FALSE,
                     !.Methods[selector].HttpRule =
                        Append(c.Methods[selector].HttpRule,
                               [HttpMethod |-> POST, UriTemplate |-> parsed.t])]

\* An addGrpcHttpRules that passes over a method that has an HTTP rule already.
addGrpcHttpRulesOnlyBare(st, sc, grpcSupportRequired) ==
  LET ams == ApiMethods(sc)
      F[i \in 0..Len(ams)] ==
        IF i = 0 THEN st
        ELSE IF F[i - 1].err THEN F[i - 1]
        ELSE IF Len(F[i - 1].Methods[ams[i].api.name \o <<ams[i].method.name>>].HttpRule) > 0
        THEN F[i - 1]
        ELSE addGrpcHttpRule(F[i - 1], ams[i].api, ams[i].method)
  IN  IF ~grpcSupportRequired THEN st ELSE F[Len(ams)]

addGrpcHttpRulesResult(st, sc, grpcSupportRequired) ==
  LET ams == ApiMethods(sc)
      F[i \in 0..Len(ams)] ==
        IF i = 0 THEN st
        ELSE IF F[i - 1].err THEN F[i - 1]
        ELSE addGrpcHttpRule(F[i - 1], ams[i].api, ams[i].method)
  IN  IF ~grpcSupportRequired THEN st ELSE F[Len(ams)]

addGrpcHttpRules ==
  /\ pc = "addGrpcHttpRules"
  /\ LET r == addGrpcHttpRulesResult(
                [err |-> FALSE, Methods |-> Methods, Operations |-> Operations],
                serviceConfig, GrpcSupportRequired)
     IN  /\ Return("addGrpcHttpRules", r.err)
         /\ Methods' = r.Methods
         /\ Operations' = r.Operations
  /\ UNCHANGED <<input, Options, ApiNames, AllTranscodingIgnoredQueryParams, AllowCors,
                 AccessToken, GrpcSupportRequired, LocalBackendCluster,
                 RemoteBackendClusters, routeConfig, build, first>>

\* processTranscodingIgnoredQueryParams: [err, params].
ignoredParamsOfProvider(p, provider) ==
  LET locs == provider.jwt_locations
      F[i \in 0..Len(locs)] ==
        IF i = 0 THEN p
        ELSE IF F[i - 1].err THEN F[i - 1]
        ELSE IF locs[i].in # "query" THEN F[i - 1]
        ELSE IF locs[i].value_prefix # "" THEN [F[i - 1] EXCEPT !.err = TRUE]
        ELSE [F[i - 1] EXCEPT !.params = F[i - 1].params \cup {locs[i].name}]
  IN  IF Len(locs) = 0 THEN [p EXCEPT !.params = p.params \cup {"access_token"}]
      ELSE F[Len(locs)]

processTranscodingIgnoredQueryParamsResult(params, providers, o) ==
  LET F[i \in 0..Len(providers)] ==
        IF i = 0 THEN [err |-> FALSE, params |-> params]
        ELSE IF F[i - 1].err THEN F[i - 1]
        ELSE ignoredParamsOfProvider(F[i - 1], providers[i])
      a == F[Len(providers)]
  IN  IF a.err THEN a
      ELSE [a EXCEPT !.params = a.params \cup Range(o.TranscodingIgnoreQueryParameters)]

processTranscodingIgnoredQueryParams ==
  /\ pc = "processTranscodingIgnoredQueryParams"
  /\ LET r == processTranscodingIgnoredQueryParamsResult(
                AllTranscodingIgnoredQueryParams, serviceConfig.providers, Options)
     IN  /\ Return("processTranscodingIgnoredQueryParams", r.err)
         /\ AllTranscodingIgnoredQueryParams' = r.params
  /\ UNCHANGED <<input, Options, ApiNames, Operations, Methods, AllowCors, AccessToken,
                 GrpcSupportRequired, LocalBackendCluster, RemoteBackendClusters,
                 routeConfig, build, first>>

\* extractApiKeyLocations(method, parameters): [queries, headers, params].
extractApiKeyLocations(parameters) ==
  LET F[i \in 0..Len(parameters)] ==
        IF i = 0 THEN [urlQueryNames |-> <<>>, headerNames |-> <<>>]
        ELSE LET p == F[i - 1]
                 q == parameters[i].url_query_parameter
                 h == parameters[i].http_header
                 p1 == IF q # "" THEN [p EXCEPT !.urlQueryNames =
                                         Append(p.urlQueryNames, [Query |-> q, Header |-> ""])]
                       ELSE p
             IN  IF h # "" THEN [p1 EXCEPT !.headerNames =
                                   Append(p1.headerNames, [Query |-> "", Header |-> h])]
                 ELSE p1
  IN  F[Len(parameters)]

\* The parameters of a system-parameter rule that are named api_key.
apiKeyLocationParameters(rule) ==
  LET ps == rule.parameters
      F[i \in 0..Len(ps)] ==
        IF i = 0 THEN <<>>
        ELSE IF ps[i].name = ApiKeyParameterName THEN Append(F[i - 1], ps[i])
        ELSE F[i - 1]
  IN  F[Len(ps)]

\* processApiKeyLocations on st = [err, Methods, Operations, params].  The last
\* loop ranges over the Methods map and only adds to a set, so the order of
\* the visit leaves no trace.
processApiKeyLocationsResult(st, rules) ==
  LET F[i \in 0..Len(rules)] ==
        IF i = 0 THEN st
        ELSE LET p == F[i - 1]
                 c == getOrCreateMethod(p, rules[i].selector)
                 x == extractApiKeyLocations(apiKeyLocationParameters(rules[i]))
                 sel == rules[i].selector
             IN  IF p.err THEN p
                 ELSE IF c.err THEN c
                 ELSE [c EXCEPT
                         !.Methods[sel].ApiKeyLocations =
                            c.Methods[sel].ApiKeyLocations \o x.urlQueryNames \o x.headerNames,
                         !.params = c.params
                            \cup {x.urlQueryNames[k].Query : k \in DOMAIN x.urlQueryNames}]
      a == F[Len(rules)]
  IN  IF a.err THEN a
      ELSE IF \E m \in DOMAIN a.Methods : Len(a.Methods[m].ApiKeyLocations) = 0
      THEN [a EXCEPT !.params = a.params \cup {"key", "api_key"}]
      ELSE a

processApiKeyLocations ==
  /\ pc = "processApiKeyLocations"
  /\ LET r == processApiKeyLocationsResult(
                [err |-> FALSE, Methods |-> Methods, Operations |-> Operations,
                 params |-> AllTranscodingIgnoredQueryParams],
                serviceConfig.sysparams)
     IN  /\ Return("processApiKeyLocations", r.err)
         /\ Methods' = r.Methods
         /\ Operations' = r.Operations
         /\ AllTranscodingIgnoredQueryParams' = r.params
  /\ UNCHANGED <<input, Options, ApiNames, AllowCors, AccessToken, GrpcSupportRequired,
                 LocalBackendCluster, RemoteBackendClusters, routeConfig, build, first>>

\* processEmptyJwksUriByOpenID: [err, providers].  discovery[i] says whether the
\* OpenID Connect Discovery call for provider i succeeds, were it made.
processEmptyJwksUriByOpenIDResult(providers, o, discovery) ==
  LET F[i \in 0..Len(providers)] ==
        IF i = 0 THEN [err |-> FALSE, providers |-> providers]
        ELSE LET p == F[i - 1]
             IN  IF p.err THEN p
                 ELSE IF providers[i].jwks_uri # "" THEN p
                 ELSE IF o.DisableOidcDiscovery THEN [p EXCEPT !.err = TRUE]
                 ELSE IF ~discovery[i] THEN [p EXCEPT !.err = TRUE]
                 ELSE [p EXCEPT !.providers[i].jwks_uri =
                                   providers[i].issuer \o "/.well-known/jwks"]
  IN  F[Len(providers)]

processEmptyJwksUriByOpenID ==
  /\ pc = "processEmptyJwksUriByOpenID"
  /\ \E discovery \in [DOMAIN serviceConfig.providers -> BOOLEAN] :
       LET r == processEmptyJwksUriByOpenIDResult(serviceConfig.providers, Options, discovery)
       IN  /\ Return("processEmptyJwksUriByOpenID", r.err)
           /\ serviceConfig' = [serviceConfig EXCEPT !.providers = r.providers]
  /\ UNCHANGED <<opts, model, routeConfig, build, first>>

\* A processLocalBackendOperations that passes over the generated methods.
processLocalBackendOperationsSkipGenerated(M, localCluster, o) ==
  [m \in DOMAIN M |->
     IF ~IsNil(M[m].BackendInfo) \/ M[m].IsGenerated THEN M[m]
     ELSE [M[m] EXCEPT !.BackendInfo =
             Ptr([ClusterName |-> localCluster.ClusterName, Path |-> "", Hostname |-> "",
                  TranslationType |-> "PATH_TRANSLATION_UNSPECIFIED",
                  Deadline |-> DefaultResponseDeadline,
                  RetryOns |-> o.BackendRetryOns, RetryNum |-> o.BackendRetryNum,
                  JwtAudience |-> ""])]]

\* processLocalBackendOperations: every method without a BackendInfo gets the
\* local one.  Each visit writes the visited method only.
processLocalBackendOperationsResult(M, localCluster, o) ==
  [m \in DOMAIN M |->
     IF ~IsNil(M[m].BackendInfo) THEN M[m]
     ELSE [M[m] EXCEPT !.BackendInfo =
             Ptr([ClusterName |-> localCluster.ClusterName, Path |-> "", Hostname |-> "",
                  TranslationType |-> "PATH_TRANSLATION_UNSPECIFIED",
                  Deadline |-> DefaultResponseDeadline,
                  RetryOns |-> o.BackendRetryOns, RetryNum |-> o.BackendRetryNum,
                  JwtAudience |-> ""])]]

processLocalBackendOperations ==
  /\ pc = "processLocalBackendOperations"
  /\ Return("processLocalBackendOperations", FALSE)
  /\ Methods' = processLocalBackendOperationsResult(Methods, Deref(LocalBackendCluster),
                                                    Options)
  /\ UNCHANGED <<input, Options, ApiNames, Operations, AllTranscodingIgnoredQueryParams,
                 AllowCors, AccessToken, GrpcSupportRequired, LocalBackendCluster,
                 RemoteBackendClusters, routeConfig, build, first>>

\* A processAuthRequirement that passes over a rule whose selector has no method.
processAuthRequirementLenient(M, rules) ==
  LET F[i \in 0..Len(rules)] ==
        IF i = 0 THEN [err |-> FALSE, Methods |-> M]
        ELSE LET p == F[i - 1]
                 sel == rules[i].selector
             IN  IF Len(rules[i].requirements) = 0 THEN p
                 ELSE IF sel \notin DOMAIN p.Methods THEN p
                 ELSE [p EXCEPT !.Methods[sel].RequireAuth = TRUE]
  IN  F[Len(rules)]

\* A processAuthRequirement that a CORS method inherits RequireAuth from.
processAuthRequirementWithCors(M, rules) ==
  LET F[i \in 0..Len(rules)] ==
        IF i = 0 THEN [err |-> FALSE, Methods |-> M]
        ELSE LET p == F[i - 1]
                 sel == rules[i].selector
                 cors == p.Methods[sel].GeneratedCorsMethod
                 q == [p EXCEPT !.Methods[sel].RequireAuth = TRUE]
             IN  IF p.err THEN p
                 ELSE IF Len(rules[i].requirements) = 0 THEN p
                 ELSE IF sel \notin DOMAIN p.Methods THEN [p EXCEPT !.err = TRUE]
                 ELSE IF IsNil(cors) THEN q
                 ELSE [q EXCEPT !.Methods[Deref(cors)].RequireAuth = TRUE]
  IN  F[Len(rules)]

\* processAuthRequirement: [err, Methods].
processAuthRequirementResult(M, rules) ==
  LET F[i \in 0..Len(rules)] ==
        IF i = 0 THEN [err |-> FALSE, Methods |-> M]
        ELSE LET p == F[i - 1]
                 sel == rules[i].selector
             IN  IF p.err THEN p
                 ELSE IF Len(rules[i].requirements) = 0 THEN p
                 ELSE IF sel \notin DOMAIN p.Methods THEN [p EXCEPT !.err = TRUE]
                 ELSE [p EXCEPT !.Methods[sel].RequireAuth = TRUE]
  IN  F[Len(rules)]

processAuthRequirement ==
  /\ pc = "processAuthRequirement"
  /\ LET r == processAuthRequirementResult(Methods, serviceConfig.authRules)
     IN  /\ Return("processAuthRequirement", r.err)
         /\ Methods' = r.Methods
  /\ UNCHANGED <<input, Options, ApiNames, Operations, AllTranscodingIgnoredQueryParams,
                 AllowCors, AccessToken, GrpcSupportRequired, LocalBackendCluster,
                 RemoteBackendClusters, routeConfig, build, first>>

\* ---------------------------------------------------------- route generator
\* getSortMethodsByHttpPattern before sorting: every pattern of every method,
\* methods in Operations order.
httpPatternMethods(ops, M) ==
  LET F[i \in 0..Len(ops)] ==
        IF i = 0 THEN <<>>
        ELSE F[i - 1] \o [k \in DOMAIN M[ops[i]].HttpRule |->
                            [Operation |-> ops[i],
                             HttpMethod |-> M[ops[i]].HttpRule[k].HttpMethod,
                             UriTemplate |-> M[ops[i]].HttpRule[k].UriTemplate]]
  IN  F[Len(ops)]

\* The order of httppattern.Sort over two (pattern, operation) entries.
SegRank(seg) ==
  CASE seg.t = "lit" -> 0 [] seg.t = "star" -> 1 [] seg.t = "var" -> 2 [] OTHER -> 3
WildcardCount(t) == Cardinality({i \in DOMAIN t.Segs : t.Segs[i].t # "lit"})
SegsLess(x, y) ==
  \E i \in 1..Len(x) :
     /\ \A j \in 1..(i - 1) : j <= Len(y) /\ SegRank(x[j]) = SegRank(y[j])
     /\ i <= Len(y) /\ SegRank(x[i]) < SegRank(y[i])
SegsSame(x, y) ==
  Len(x) = Len(y) /\ \A i \in 1..Len(x) : SegRank(x[i]) = SegRank(y[i])
PatternLess(a, b) ==
  LET ta == Deref(a.UriTemplate)
      tb == Deref(b.UriTemplate)
  IN  IF IsExactMatch(ta) # IsExactMatch(tb) THEN IsExactMatch(ta)
      ELSE IF WildcardCount(ta) # WildcardCount(tb) THEN WildcardCount(ta) < WildcardCount(tb)
      ELSE IF ~SegsSame(ta.Segs, tb.Segs) THEN SegsLess(ta.Segs, tb.Segs)
      ELSE IF (a.HttpMethod = HttpMethodWildCard) # (b.HttpMethod = HttpMethodWildCard)
      THEN b.HttpMethod = HttpMethodWildCard
      ELSE Regex(ta) = Regex(tb) /\ a.HttpMethod = OPTIONS /\ b.HttpMethod # OPTIONS

\* httppattern.Sort: a stable sort by PatternLess (x goes behind the last entry
\* it does not precede).
InsertSorted(sorted, x) ==
  LET notAfter == {i \in DOMAIN sorted : ~PatternLess(x, sorted[i])}
      pos == IF notAfter = {} THEN 0
             ELSE CHOOSE n \in notAfter : \A i \in notAfter : i <= n
  IN  SubSeq(sorted, 1, pos) \o <<x>> \o SubSeq(sorted, pos + 1, Len(sorted))

Sort(methods) ==
  LET F[i \in 0..Len(methods)] ==
        IF i = 0 THEN <<>> ELSE InsertSorted(F[i - 1], methods[i])
  IN  F[Len(methods)]

\* makeHttpRouteMatchers emitting one matcher for an exact path, without the
\* trailing-slash form.
makeHttpRouteMatchersOneExact(httpRule) ==
  LET t == Deref(httpRule.UriTemplate)
      headers == IF httpRule.HttpMethod # HttpMethodWildCard
                 THEN <<[Name |-> ":method", ExactMatch |-> httpRule.HttpMethod]>>
                 ELSE <<>>
  IN  IF IsExactMatch(t)
      THEN <<[Path |-> Ptr(ExactMatchString(t, FALSE)), SafeRegex |-> Nil,
              Headers |-> headers]>>
      ELSE <<[Path |-> Nil, SafeRegex |-> Ptr(Regex(t)), Headers |-> headers]>>

\* makeHttpRouteMatchers(httpRule): the matchers of one pattern.
makeHttpRouteMatchers(httpRule) ==
  LET t == Deref(httpRule.UriTemplate)
      headers == IF httpRule.HttpMethod # HttpMethodWildCard
                 THEN <<[Name |-> ":method", ExactMatch |-> httpRule.HttpMethod]>>
                 ELSE <<>>
      pathNoTrailingSlash == ExactMatchString(t, FALSE)
      pathWithTrailingSlash == ExactMatchString(t, TRUE)
      exact(path) == [Path |-> Ptr(path), SafeRegex |-> Nil, Headers |-> headers]
  IN  IF IsExactMatch(t)
      THEN IF pathWithTrailingSlash # pathNoTrailingSlash
           THEN <<exact(pathNoTrailingSlash), exact(pathWithTrailingSlash)>>
           ELSE <<exact(pathNoTrailingSlash)>>
      ELSE <<[Path |-> Nil, SafeRegex |-> Ptr(Regex(t)), Headers |-> headers]>>

\* MakePathRewriteConfig(method, httpRule): nil or the per-route config.
MakePathRewriteConfig(method, httpRule) ==
  LET info == Deref(method.BackendInfo)
      t == Deref(httpRule.UriTemplate)
  IN  IF IsNil(method.BackendInfo) THEN Nil
      ELSE IF info.TranslationType = "APPEND_PATH_TO_ADDRESS" /\ info.Path # ""
      THEN Ptr([PathPrefix |-> info.Path, ConstantPath |-> Nil])
      ELSE IF info.TranslationType = "CONSTANT_ADDRESS"
      THEN Ptr([PathPrefix |-> "",
                ConstantPath |-> Ptr([Path |-> info.Path,
                                      UrlTemplate |->
                                        IF ~IsNil(httpRule.UriTemplate) /\ Len(Variables(t)) > 0
                                        THEN Ptr(ExactMatchString(t, FALSE)) ELSE Nil])])
      ELSE Nil

\* makePerRouteFilterConfig attaching the jwt-authn config to every route.
makePerRouteFilterConfigAlwaysJwt(operation, method, httpRule) ==
  [ServiceControl |-> Ptr([OperationName |-> operation]),
   BackendAuth |-> IF ~IsNil(method.BackendInfo) /\ Deref(method.BackendInfo).JwtAudience # ""
                   THEN Ptr([JwtAudience |-> Deref(method.BackendInfo).JwtAudience])
                   ELSE Nil,
   PathRewrite |-> MakePathRewriteConfig(method, httpRule),
   JwtAuthn |-> Ptr([RequirementName |-> operation])]

\* makePerRouteFilterConfig(operation, method, httpRule): filter name -> config.
makePerRouteFilterConfig(operation, method, httpRule) ==
  [ServiceControl |-> Ptr([OperationName |-> operation]),
   BackendAuth |-> IF ~IsNil(method.BackendInfo) /\ Deref(method.BackendInfo).JwtAudience # ""
                   THEN Ptr([JwtAudience |-> Deref(method.BackendInfo).JwtAudience])
                   ELSE Nil,
   PathRewrite |-> MakePathRewriteConfig(method, httpRule),
   JwtAuthn |-> IF method.RequireAuth THEN Ptr([RequirementName |-> operation]) ELSE Nil]

\* Routes whose timeout is the backend deadline, streaming or not.
routesOfAlwaysDeadline(httpPatternMethod, M, o) ==
  LET operation == httpPatternMethod.Operation
      method == M[operation]
      httpRule == [UriTemplate |-> httpPatternMethod.UriTemplate,
                   HttpMethod |-> httpPatternMethod.HttpMethod]
      info == Deref(method.BackendInfo)
      routeMatchers == makeHttpRouteMatchers(httpRule)
  IN  [k \in DOMAIN routeMatchers |->
         [Match |-> routeMatchers[k],
          Cluster |-> info.ClusterName,
          Timeout |-> info.Deadline,
          RetryOn |-> info.RetryOns,
          NumRetries |-> info.RetryNum,
          Decorator |-> "ingress " \o method.ShortName,
          TypedPerFilterConfig |-> makePerRouteFilterConfig(operation, method, httpRule),
          HostRewriteLiteral |-> info.Hostname,
          ResponseHeadersToAdd |->
            IF o.EnableHSTS THEN <<"Strict-Transport-Security">> ELSE <<>>]]

\* The routes makeRouteTable emits for one sorted (pattern, operation) entry.
routesOf(httpPatternMethod, M, o) ==
  LET operation == httpPatternMethod.Operation
      method == M[operation]
      httpRule == [UriTemplate |-> httpPatternMethod.UriTemplate,
                   HttpMethod |-> httpPatternMethod.HttpMethod]
      info == Deref(method.BackendInfo)
      respTimeout == IF method.IsStreaming THEN 0 ELSE info.Deadline
      routeMatchers == makeHttpRouteMatchers(httpRule)
  IN  [k \in DOMAIN routeMatchers |->
         [Match |-> routeMatchers[k],
          Cluster |-> info.ClusterName,
          Timeout |-> respTimeout,
          RetryOn |-> info.RetryOns,
          NumRetries |-> info.RetryNum,
          Decorator |-> "ingress " \o method.ShortName,
          TypedPerFilterConfig |-> makePerRouteFilterConfig(operation, method, httpRule),
          HostRewriteLiteral |-> info.Hostname,
          ResponseHeadersToAdd |->
            IF o.EnableHSTS THEN <<"Strict-Transport-Security">> ELSE <<>>]]

\* makeRouteTable: [panic, err, routes].  A pattern whose UriTemplate is nil is
\* dereferenced (by the sort and by makeHttpRouteMatchers).  httppattern.Sort
\* returns an error that getSortMethodsByHttpPattern passes on; on which
\* patterns it does is not known, so sortFails is any of the two outcomes.
makeRouteTable(ops, M, o, sortFails) ==
  LET all == httpPatternMethods(ops, M)
      sorted == Sort(all)
      F[i \in 0..Len(sorted)] ==
        IF i = 0 THEN <<>> ELSE F[i - 1] \o routesOf(sorted[i], M, o)
  IN  IF \E i \in DOMAIN all : IsNil(all[i].UriTemplate)
      THEN [panic |-> TRUE, err |-> FALSE, routes |-> <<>>]
      ELSE IF sortFails THEN [panic |-> FALSE, err |-> TRUE, routes |-> <<>>]
      ELSE [panic |-> FALSE, err |-> FALSE, routes |-> F[Len(sorted)]]

\* The catch-all OPTIONS route MakeRouteConfig appends for the CORS policy.
corsRoute(localClusterName) ==
  [Match |-> [Prefix |-> "/",
              Headers |-> <<[Name |-> ":method", ExactMatch |-> OPTIONS]>>],
   Cluster |-> localClusterName,
   Decorator |-> "ingress"]

\* MakeRouteConfig's switch on CorsPreset: [err, cors].
corsPolicy(o) ==
  CASE o.CorsPreset = "basic" ->
         IF o.CorsAllowOrigin = "" THEN [err |-> TRUE, cors |-> Nil]
         ELSE [err |-> FALSE, cors |-> Ptr([Exact |-> o.CorsAllowOrigin, SafeRegex |-> ""])]
    [] o.CorsPreset = "cors_with_regex" ->
         IF o.CorsAllowOriginRegex = "" \/ o.CorsAllowOriginRegex = "oversize"
         THEN [err |-> TRUE, cors |-> Nil]
         ELSE [err |-> FALSE, cors |-> Ptr([Exact |-> "", SafeRegex |-> o.CorsAllowOriginRegex])]
    [] o.CorsPreset = "" ->
         IF o.CorsAllowMethods # "" \/ o.CorsAllowHeaders # ""
            \/ o.CorsExposeHeaders # "" \/ o.CorsAllowCredentials
         THEN [err |-> TRUE, cors |-> Nil]
         ELSE [err |-> FALSE, cors |-> Nil]
    [] OTHER -> [err |-> TRUE, cors |-> Nil]

\* MakeRouteConfig(serviceInfo): [status, Routes, CorsRoute, Cors].
MakeRouteConfigResult(ops, M, o, localClusterName, sortFails) ==
  LET t == makeRouteTable(ops, M, o, sortFails)
      c == corsPolicy(o)
  IN  IF t.panic THEN [status |-> "panic", Routes |-> <<>>, CorsRoute |-> Nil, Cors |-> Nil]
      ELSE IF t.err THEN [status |-> "error", Routes |-> <<>>, CorsRoute |-> Nil, Cors |-> Nil]
      ELSE IF c.err THEN [status |-> "error", Routes |-> <<>>, CorsRoute |-> Nil, Cors |-> Nil]
      ELSE [status |-> "ok", Routes |-> t.routes,
            CorsRoute |-> IF IsNil(c.cors) THEN Nil ELSE Ptr(corsRoute(localClusterName)),
            Cors |-> IF IsNil(c.cors) THEN Nil
                     ELSE Ptr([AllowOrigin |-> Deref(c.cors),
                               AllowMethods |-> o.CorsAllowMethods,
                               AllowHeaders |-> o.CorsAllowHeaders,
                               ExposeHeaders |-> o.CorsExposeHeaders,
                               AllowCredentials |-> o.CorsAllowCredentials])]

NoRouteConfig == [status |-> "none", Routes |-> <<>>, CorsRoute |-> Nil, Cors |-> Nil]

MakeRouteConfig ==
  /\ pc = "done"
  /\ \E sortFails \in BOOLEAN :
       routeConfig' = MakeRouteConfigResult(Operations, Methods, Options,
                                            LocalBackendClusterName(serviceConfig.name),
                                            sortFails)
  /\ pc' = "routed"
  /\ UNCHANGED <<input, ran, ret, err, model, build, first>>

\* ------------------------------------------------- service descriptions
\* The builders of the inputs drawn in Init.
Method(name, streaming, typeName) ==
  [name |-> name, request_streaming |-> streaming, response_streaming |-> FALSE,
   request_type_url |-> [prefix |-> TypeUrlPrefix, name |-> typeName]]
Api(name, methods) == [name |-> name, version |-> "v1", methods |-> methods]
Field(name, jsonName) == [name |-> name, json_name |-> jsonName]
Type(name, fields) == [name |-> name, fields |-> fields]
HttpRuleOf(selector, kind, path) ==
  [selector |-> selector,
   pattern |-> [kind |-> kind, path |-> path, custom_kind |-> ""],
   additional_bindings |-> <<>>]
CustomRuleOf(selector, verb, path) ==
  [selector |-> selector,
   pattern |-> [kind |-> "custom", path |-> path, custom_kind |-> verb],
   additional_bindings |-> <<>>]
Addr(scheme, hostname, port, path) ==
  [ok |-> TRUE, scheme |-> scheme, hostname |-> hostname, port |-> port, path |-> path]
NoAuthentication == [kind |-> "none", jwt_audience |-> "", disable_auth |-> FALSE]
BackendRuleOf(selector, address) ==
  [selector |-> selector, address |-> address, deadline |-> 0, protocol |-> "",
   authentication |-> NoAuthentication,
   path_translation |-> "PATH_TRANSLATION_UNSPECIFIED"]
UsageRuleOf(selector) ==
  [selector |-> selector, allow_unregistered_calls |-> TRUE, skip_service_control |-> FALSE]
MetricRuleOf(selector, costs) == [selector |-> selector, metric_costs |-> costs]
SystemParameterRuleOf(selector) ==
  [selector |-> selector,
   parameters |-> <<[name |-> ApiKeyParameterName, http_header |-> "x-api-key",
                     url_query_parameter |-> "apikey"]>>]
AuthRuleOf(selector, requirements) ==
  [selector |-> selector, requirements |-> requirements]
Provider(id, jwksUri) ==
  [id |-> id, issuer |-> "https://issuer", jwks_uri |-> jwksUri, jwt_locations |-> <<>>]

SelM1 == <<"a", "M1">>
SelM2 == <<"a", "M2">>
\* a well-formed selector that apis.methods does not declare
SelX == <<"a", "X">>
\* a selector without a "."
SelBad == <<"bad">>
SelCorsM1 == <<"a", AutogeneratedOperationPrefix \o "_CORS_M1">>

BaseApis == <<Api(<<"a">>, <<Method("M1", FALSE, "T1"), Method("M2", FALSE, "")>>)>>

BaseConfig ==
  [name |-> "svc", apis |-> BaseApis, types |-> <<>>, http |-> <<>>, backend |-> <<>>,
   usage |-> <<>>, quota |-> <<>>, sysparams |-> <<>>, authRules |-> <<>>,
   providers |-> <<>>, endpoints |-> <<[name |-> "svc", allow_cors |-> FALSE]>>]

LocalAddr == Addr("http", "127.0.0.1", 8082, "")

BaseOptions ==
  [BackendAddress |-> LocalAddr, Healthz |-> Nil, CorsPreset |-> "",
   CorsAllowOrigin |-> "", CorsAllowOriginRegex |-> "", CorsAllowMethods |-> "",
   CorsAllowHeaders |-> "", CorsExposeHeaders |-> "", CorsAllowCredentials |-> FALSE,
   BackendRetryOns |-> "reset", BackendRetryNum |-> 1, ServiceAccountKey |-> "",
   DisableOidcDiscovery |-> FALSE, NonGCP |-> FALSE, EnableHSTS |-> FALSE,
   TranscodingIgnoreQueryParameters |-> <<>>]

WithCors(sc, allow) ==
  [sc EXCEPT !.endpoints = <<[name |-> sc.name, allow_cors |-> allow]>>]

PathA == AbsPath(<<Lit("a")>>)
PathB == AbsPath(<<Lit("b")>>)
RemoteH1 == Addr("https", "h1", 0, "/v1")

\* Selector closure: each rule set names no selector, a declared one or an
\* undeclared well-formed one.
SelectorChoices == {<<>>, <<SelM1>>, <<SelX>>}
ConfigsSel ==
  {[WithCors(BaseConfig, cors) EXCEPT
      !.quota = [i \in DOMAIN q |-> MetricRuleOf(q[i], ("m" :> 1))],
      !.backend = [i \in DOMAIN b |-> BackendRuleOf(b[i], Ptr(RemoteH1))],
      !.http = [i \in DOMAIN h |-> HttpRuleOf(h[i], "get", PathA)],
      !.usage = [i \in DOMAIN u |-> UsageRuleOf(u[i])],
      !.sysparams = [i \in DOMAIN p |-> SystemParameterRuleOf(p[i])]] :
   q \in SelectorChoices, b \in SelectorChoices, h \in SelectorChoices,
   u \in SelectorChoices, p \in SelectorChoices, cors \in BOOLEAN}

HealthzPath == RelPath(<<Lit("healthz")>>)

\* Backend binding: up to MaxBackendRules backend rules, each for a declared
\* method, an undeclared one or the name of M1's CORS method, to the local
\* backend (no address) or a remote one; CORS is on and the health-check
\* method is asked for.
BackendRuleChoices ==
  {BackendRuleOf(sel, a) : sel \in {SelM1, SelX, SelCorsM1}, a \in {Nil, Ptr(RemoteH1)}}
HttpChoicesBackend ==
  {<<>>, <<HttpRuleOf(SelM1, "get", PathA)>>, <<HttpRuleOf(SelX, "get", PathA)>>,
   <<HttpRuleOf(SelCorsM1, "get", PathB), HttpRuleOf(SelM1, "get", PathA)>>}
ConfigsBackend ==
  {[WithCors(BaseConfig, TRUE) EXCEPT !.backend = b, !.http = h] :
   b \in SeqsUpTo(BackendRuleChoices, MaxBackendRules), h \in HttpChoicesBackend}
OptionsHealthz == [BaseOptions EXCEPT !.Healthz = Ptr(HealthzPath)]

\* OPTIONS routes: up to MaxHttpRules HTTP rules on the declared methods, each
\* GET or custom OPTIONS, on a literal path, a wildcard or a capture (the last
\* two have the same regex); CORS on or off.
PathStar == AbsPath(<<Star>>)
PathVarX == AbsPath(<<Var("x")>>)
HttpRuleChoices ==
  {HttpRuleOf(sel, "get", path) : sel \in {SelM1, SelM2}, path \in {PathA, PathStar, PathVarX}}
    \cup {CustomRuleOf(sel, OPTIONS, path) :
            sel \in {SelM1, SelM2}, path \in {PathA, PathStar, PathVarX}}
ConfigsHttp ==
  {[WithCors(BaseConfig, cors) EXCEPT !.http = h] :
   h \in SeqsUpTo(HttpRuleChoices, MaxHttpRules), cors \in BOOLEAN}

\* Determinism: the service description may declare a method under the name
\* addOptionMethod gives M1's CORS method, with a request type of its own; the
\* quota rule's metric_costs map has up to MaxMetricCosts entries.
ApisWithCorsName ==
  <<Api(<<"a">>, <<Method("M1", FALSE, "T1"),
                   Method(AutogeneratedOperationPrefix \o "_CORS_M1", FALSE, "T2")>>)>>
TypesXaXb == <<Type("T1", <<Field("x", "xa")>>), Type("T2", <<Field("x", "xb")>>)>>
RemoteConstant ==
  [BackendRuleOf(SelM1, Ptr(RemoteH1)) EXCEPT !.path_translation = "CONSTANT_ADDRESS"]
MetricName(i) == "m" \o ToString(i)
MetricCostMaps == {[n \in {MetricName(i) : i \in 1..k} |-> 1] : k \in 0..MaxMetricCosts}
ConfigsDet ==
  {[WithCors(BaseConfig, cors) EXCEPT
      !.apis = a, !.types = t, !.http = h, !.backend = b,
      !.quota = IF DOMAIN costs = {} THEN <<>> ELSE <<MetricRuleOf(SelM1, costs)>>] :
   a \in {BaseApis, ApisWithCorsName}, t \in {<<>>, TypesXaXb},
   h \in {<<>>, <<HttpRuleOf(SelM1, "get", PathVarX)>>},
   b \in {<<>>, <<RemoteConstant>>}, costs \in MetricCostMaps, cors \in BOOLEAN}

\* Phase errors: each phase that can return an error is given, or not, an input
\* on which it does: an unparsable backend address in the options or in a
\* backend rule, a malformed path, a selector without a "." in a usage or a
\* system-parameter rule, a request type with clashing fields, a query JWT
\* location with a value prefix, a provider whose jwks_uri must be discovered,
\* an auth rule on an undeclared method.
BadAddr == [Addr("https", "h1", 0, "") EXCEPT !.ok = FALSE]
BadAddrOptions == [BaseOptions EXCEPT !.BackendAddress = BadAddr]
TypeClash == Type("T1", <<Field("x", "xa"), Field("x", "xb")>>)
ProviderBadLocation ==
  [Provider("p", "https://jwks") EXCEPT
     !.jwt_locations = <<[in |-> "query", name |-> "jwt", value_prefix |-> "Bearer"]>>]
ConfigsPhases ==
  {[BaseConfig EXCEPT !.backend = b, !.http = h, !.usage = u, !.types = t,
                      !.providers = pr, !.sysparams = sp, !.authRules = ar] :
   b \in {<<>>, <<BackendRuleOf(SelM1, Ptr(BadAddr))>>},
   h \in {<<>>, <<HttpRuleOf(SelM1, "get", AbsPath(<<BadSeg>>))>>},
   u \in {<<>>, <<UsageRuleOf(SelBad)>>},
   t \in {<<>>, <<TypeClash>>},
   pr \in {<<>>, <<ProviderBadLocation>>, <<Provider("p", "")>>},
   sp \in {<<>>, <<SystemParameterRuleOf(SelBad)>>},
   ar \in {<<>>, <<AuthRuleOf(SelX, <<"p">>)>>}}

\* Auth requirements: up to MaxAuthRules authentication rules, each with no or
\* one requirement, on a declared method, an undeclared one, the name of M1's
\* CORS method or the health-check method; the methods these names stand for
\* exist or not, depending on the HTTP rule, CORS, a usage rule on the
\* undeclared method and the health-check option.
AuthRuleChoices ==
  {AuthRuleOf(sel, reqs) : sel \in {SelM1, SelX, SelCorsM1, HealthCheckOperation},
                           reqs \in {<<>>, <<"p">>}}
ConfigsAuth ==
  {[WithCors(BaseConfig, hc[2]) EXCEPT !.http = hc[1], !.usage = u, !.authRules = ar] :
   hc \in {<< <<>>, FALSE >>, << <<HttpRuleOf(SelM1, "get", PathA)>>, FALSE >>,
           << <<HttpRuleOf(SelM1, "get", PathA)>>, TRUE >>},
   u \in {<<>>, <<UsageRuleOf(SelX)>>},
   ar \in SeqsUpTo(AuthRuleChoices, MaxAuthRules)}

\* Request types: M1's request type T1 has up to MaxFields fields, named x or y
\* with json_name x, y or z; M1 has no HTTP rule or one with one or two
\* captures; CORS on or off.
FieldChoices == {Field(n, j) : n \in {"x", "y"}, j \in {"x", "y", "z"}}
PathVarXY == AbsPath(<<Var("x"), Var("y")>>)
ConfigsTypes ==
  {[WithCors(BaseConfig, cors) EXCEPT !.types = <<Type("T1", fs)>>, !.http = h] :
   fs \in SeqsUpTo(FieldChoices, MaxFields),
   h \in {<<>>, <<HttpRuleOf(SelM1, "get", PathVarX)>>,
          <<HttpRuleOf(SelM1, "get", PathVarXY)>>},
   cors \in BOOLEAN}

\* gRPC: the local backend and a backend rule's remote backend are HTTP or
\* gRPC; up to MaxHttpRules HTTP rules on the declared methods, one of them the
\* very pattern addGrpcHttpRules writes, one with an additional binding; CORS
\* on or off; the health-check method asked for or not.
GrpcLocalOptions == [BaseOptions EXCEPT !.BackendAddress = Addr("grpc", "127.0.0.1", 8082, "")]
RemoteGrpcH2 == Addr("grpcs", "h2", 0, "")
PathGrpcM1 == AbsPath(<<Lit("a"), Lit("M1")>>)
HttpChoicesGrpc ==
  {HttpRuleOf(SelM1, "get", PathA), HttpRuleOf(SelM1, "post", PathGrpcM1),
   HttpRuleOf(SelM2, "get", PathB),
   [HttpRuleOf(SelM2, "get", PathA) EXCEPT
      !.additional_bindings = <<[kind |-> "post", path |-> PathB, custom_kind |-> ""]>>]}
ConfigsGrpc ==
  {[WithCors(BaseConfig, cors) EXCEPT !.backend = b, !.http = h] :
   b \in {<<>>, <<BackendRuleOf(SelM1, Ptr(RemoteH1))>>,
          <<BackendRuleOf(SelM1, Ptr(RemoteGrpcH2))>>,
          <<BackendRuleOf(SelX, Ptr(RemoteGrpcH2))>>},
   h \in SeqsUpTo(HttpChoicesGrpc, MaxHttpRules), cors \in BOOLEAN}

\* Deadlines: M1 is streaming or not, M2 is not; both have an HTTP rule; up to
\* MaxBackendRules backend rules on them, with no deadline, a negative one, 2.5 s,
\* 1.2344 s or 1.2345 s (r.deadline counts tenths of a millisecond).
DeadlineChoices == {0, 0 - 15000, 25000, 12344, 12345}
BackendChoicesDeadline ==
  {[BackendRuleOf(sel, Ptr(RemoteH1)) EXCEPT !.deadline = d] :
     sel \in {SelM1, SelM2}, d \in DeadlineChoices}
ConfigsDeadline ==
  {[WithCors(BaseConfig, cors) EXCEPT
      !.apis = <<Api(<<"a">>, <<Method("M1", streaming, "T1"), Method("M2", FALSE, "")>>)>>,
      !.http = <<HttpRuleOf(SelM1, "get", PathA), HttpRuleOf(SelM2, "get", PathB)>>,
      !.backend = b] :
   streaming \in BOOLEAN, cors \in BOOLEAN,
   b \in SeqsUpTo(BackendChoicesDeadline, MaxBackendRules)}

\* Backend authentication: up to MaxBackendRules backend rules on M1, each with
\* no address or an http, https, grpc or grpcs one, and with no authentication
\* field, a jwt_audience, disable_auth true or disable_auth false.
AuthenticationChoices ==
  {NoAuthentication,
   [kind |-> "jwt_audience", jwt_audience |-> "aud", disable_auth |-> FALSE],
   [kind |-> "disable_auth", jwt_audience |-> "", disable_auth |-> TRUE],
   [kind |-> "disable_auth", jwt_audience |-> "", disable_auth |-> FALSE]}
AddressChoices ==
  {Nil, Ptr(RemoteH1), Ptr(Addr("http", "h3", 0, "")), Ptr(Addr("grpc", "h4", 0, "")),
   Ptr(Addr("grpcs", "h2", 0, ""))}
BackendChoicesAuth ==
  {[BackendRuleOf(SelM1, a) EXCEPT !.authentication = au] :
     a \in AddressChoices, au \in AuthenticationChoices}
ConfigsBackendAuth ==
  {[BaseConfig EXCEPT !.backend = b] : b \in SeqsUpTo(BackendChoicesAuth, MaxBackendRules)}

\* CORS options: M1 has the HTTP rule GET /a; the endpoints entry allows CORS
\* or not, and may be the entry of another name; CorsPreset is "", "basic",
\* "cors_with_regex" or something else, and each of the six CORS fields is set
\* or not.
ConfigsCors ==
  {[BaseConfig EXCEPT !.http = <<HttpRuleOf(SelM1, "get", PathA)>>,
                      !.endpoints = <<[name |-> n, allow_cors |-> cors]>>] :
   n \in {"svc", "other"}, cors \in BOOLEAN}
OptionsCors ==
  {[BaseOptions EXCEPT
      !.CorsPreset = preset, !.CorsAllowOrigin = org, !.CorsAllowOriginRegex = reg,
      !.CorsAllowMethods = am, !.CorsAllowHeaders = ah, !.CorsExposeHeaders = eh,
      !.CorsAllowCredentials = ac] :
   preset \in {"", "basic", "cors_with_regex", "custom"},
   org \in {"", "example.com"}, reg \in {"", "^https://.*[.]example[.]com$"},
   am \in {"", "GET"}, ah \in {"", "x-h"}, eh \in {"", "x-e"}, ac \in BOOLEAN}

\* Clusters: CORS is on and M1 has the HTTP rule GET /a; up to MaxBackendRules
\* backend rules on M1, M2 or the name of M1's CORS method, each with no
\* address, http://h1 (port 80), grpc://h1:80 or grpcs://h2 (port 443).
AddressChoicesCluster ==
  {Nil, Ptr(Addr("http", "h1", 0, "")), Ptr(Addr("grpc", "h1", 80, "")), Ptr(RemoteGrpcH2)}
BackendChoicesCluster ==
  {BackendRuleOf(sel, a) : sel \in {SelM1, SelM2, SelCorsM1}, a \in AddressChoicesCluster}
ConfigsCluster ==
  {[WithCors(BaseConfig, TRUE) EXCEPT
      !.http = <<HttpRuleOf(SelM1, "get", PathA)>>, !.backend = b] :
   b \in SeqsUpTo(BackendChoicesCluster, MaxBackendRules)}

\* Operations: apis declares M1, M2 or M2, M1, M2; the backend, HTTP, usage and
\* system-parameter rules name declared selectors and the undeclared X and Y
\* in different orders, the quota rules a declared selector; CORS is on or off.
SelY == <<"a", "Y">>
ApisChoicesOps ==
  {BaseApis,
   <<Api(<<"a">>, <<Method("M2", FALSE, ""), Method("M1", FALSE, "T1"),
                    Method("M2", FALSE, "")>>)>>}
HttpChoicesOps ==
  {<<>>, <<HttpRuleOf(SelM2, "get", PathB)>>,
   <<HttpRuleOf(SelY, "get", PathB), HttpRuleOf(SelM1, "get", PathA)>>}
ConfigsOps ==
  {[WithCors(BaseConfig, cors) EXCEPT
      !.apis = apis,
      !.quota = [i \in DOMAIN q |-> MetricRuleOf(q[i], ("m" :> 1))],
      !.backend = [i \in DOMAIN b |-> BackendRuleOf(b[i], Ptr(RemoteH1))],
      !.http = h,
      !.usage = [i \in DOMAIN u |-> UsageRuleOf(u[i])],
      !.sysparams = [i \in DOMAIN p |-> SystemParameterRuleOf(p[i])]] :
   apis \in ApisChoicesOps, q \in {<<>>, <<SelM1>>},
   b \in {<<>>, <<SelY>>, <<SelY, SelX>>, <<SelX, SelM1>>}, h \in HttpChoicesOps,
   u \in {<<>>, <<SelX>>, <<SelY>>}, p \in {<<>>, <<SelY, SelX>>}, cors \in BOOLEAN}

\* gRPC routes: M1 is streaming or not and has the HTTP rule GET /a or none;
\* M1 has no backend rule or one to grpcs://h2; CORS is on or off.
ConfigsGrpcRoute ==
  {[WithCors(BaseConfig, cors) EXCEPT
      !.apis = <<Api(<<"a">>, <<Method("M1", streaming, "T1"), Method("M2", FALSE, "")>>)>>,
      !.http = h, !.backend = b] :
   streaming \in BOOLEAN, cors \in BOOLEAN,
   h \in {<<>>, <<HttpRuleOf(SelM1, "get", PathA)>>},
   b \in {<<>>, <<BackendRuleOf(SelM1, Ptr(RemoteGrpcH2))>>}}

\* API-key locations: up to MaxSystemParameterRules system-parameter rules on
\* M1 or M2, each with one or two parameters: api_key with a query name and a
\* header, with a header only, a header-only api_key before a query-only one,
\* or an api_key with both names blank next to a parameter of another name.
SystemParameter(name, header, query) ==
  [name |-> name, http_header |-> header, url_query_parameter |-> query]
ParameterChoices ==
  {<<SystemParameter(ApiKeyParameterName, "x-api-key", "apikey")>>,
   <<SystemParameter(ApiKeyParameterName, "h1", "")>>,
   <<SystemParameter(ApiKeyParameterName, "h2", ""),
     SystemParameter(ApiKeyParameterName, "", "q2")>>,
   <<SystemParameter(ApiKeyParameterName, "", ""), SystemParameter("other", "h3", "q3")>>}
ConfigsApiKey ==
  {[BaseConfig EXCEPT !.sysparams = sp] :
   sp \in SeqsUpTo({[selector |-> sel, parameters |-> ps] :
                      sel \in {SelM1, SelM2}, ps \in ParameterChoices},
                   MaxSystemParameterRules)}

\* Per-route filter configs: M1 has GET /a and M2 GET /b; a backend rule on
\* M1 or M2, remote or local, with a jwt_audience, with disable_auth or with
\* no authentication field, or none; an auth rule with a requirement on M1 or
\* on M2, or none; CORS is on or off.
BackendChoicesPerRoute ==
  {[BackendRuleOf(sel, a) EXCEPT !.authentication = au] :
     sel \in {SelM1, SelM2}, a \in {Nil, Ptr(RemoteH1)},
     au \in {NoAuthentication,
             [kind |-> "jwt_audience", jwt_audience |-> "aud", disable_auth |-> FALSE],
             [kind |-> "disable_auth", jwt_audience |-> "", disable_auth |-> TRUE]}}
ConfigsPerRoute ==
  {[WithCors(BaseConfig, cors) EXCEPT
      !.http = <<HttpRuleOf(SelM1, "get", PathA), HttpRuleOf(SelM2, "get", PathB)>>,
      !.backend = b, !.authRules = ar] :
   cors \in BOOLEAN,
   b \in {<<>>} \cup {<<r>> : r \in BackendChoicesPerRoute},
   ar \in {<<>>, <<AuthRuleOf(SelM1, <<"p">>)>>, <<AuthRuleOf(SelM2, <<"p">>)>>}}

\* CORS companions: apis declares M1 before M2; the HTTP rules give GET /a to
\* M1 and POST /a to M2, in either order, or one of the two only; M1 or M2 may
\* have a remote backend; CORS is on or off.
HttpChoicesCorsOwner ==
  {<<HttpRuleOf(SelM1, "get", PathA)>>, <<HttpRuleOf(SelM2, "post", PathA)>>,
   <<HttpRuleOf(SelM1, "get", PathA), HttpRuleOf(SelM2, "post", PathA)>>,
   <<HttpRuleOf(SelM2, "post", PathA), HttpRuleOf(SelM1, "get", PathA)>>}
ConfigsCorsOwner ==
  {[WithCors(BaseConfig, cors) EXCEPT !.http = h, !.backend = b] :
   cors \in BOOLEAN, h \in HttpChoicesCorsOwner,
   b \in {<<>>, <<BackendRuleOf(SelM1, Ptr(RemoteH1))>>,
          <<BackendRuleOf(SelM2, Ptr(RemoteH1))>>}}

\* Health check: Options.Healthz is empty, "healthz" or "/healthz"; M1 has the
\* HTTP rule GET /a or none; the usage rules name M1 or the health-check
\* method, with skip_service_control set or not.
UsageChoicesHealth ==
  {[UsageRuleOf(sel) EXCEPT !.skip_service_control = skip] :
     sel \in {SelM1, HealthCheckOperation}, skip \in BOOLEAN}
ConfigsHealth ==
  {[WithCors(BaseConfig, cors) EXCEPT !.http = h, !.usage = u] :
   cors \in BOOLEAN, h \in {<<>>, <<HttpRuleOf(SelM1, "get", PathA)>>},
   u \in {<<>>} \cup {<<r>> : r \in UsageChoicesHealth}
           \cup {<<r1, r2>> : r1 \in UsageChoicesHealth, r2 \in UsageChoicesHealth}}
OptionsHealth ==
  {BaseOptions, OptionsHealthz,
   [BaseOptions EXCEPT !.Healthz = Ptr(AbsPath(<<Lit("healthz")>>))]}

\* Templates: M1 has no HTTP rule, GET /a, GET on a malformed path, or GET /a
\* with an additional binding on a malformed path; Options.Healthz is empty,
\* "healthz" or a malformed path; the local backend is http or grpc; CORS is
\* on or off.
HttpChoicesTemplates ==
  {<<>>, <<HttpRuleOf(SelM1, "get", PathA)>>,
   <<HttpRuleOf(SelM1, "get", AbsPath(<<BadSeg>>))>>,
   <<[HttpRuleOf(SelM1, "get", PathA) EXCEPT
        !.additional_bindings =
           <<[kind |-> "post", path |-> AbsPath(<<BadSeg>>), custom_kind |-> ""]>>]>>}
ConfigsTemplates ==
  {[WithCors(BaseConfig, cors) EXCEPT !.http = h] :
   cors \in BOOLEAN, h \in HttpChoicesTemplates}
OptionsTemplates ==
  {BaseOptions, GrpcLocalOptions, OptionsHealthz,
   [BaseOptions EXCEPT !.Healthz = Ptr(RelPath(<<BadSeg>>))]}

\* ------------------------------------------------------------ specifications
Start ==
  /\ pc = "start" /\ ran = <<>> /\ ret = "pending" /\ err = ""
  /\ Options = opts
  /\ ApiNames = <<>> /\ Operations = <<>> /\ Methods = <<>>
  /\ AllTranscodingIgnoredQueryParams = {}
  /\ AllowCors = FALSE /\ AccessToken = "" /\ GrpcSupportRequired = FALSE
  /\ LocalBackendCluster = Nil /\ RemoteBackendClusters = <<>>
  /\ routeConfig = NoRouteConfig
  /\ build = 1
  /\ first = Nil

Next ==
  \/ NewServiceInfo
  \/ buildLocalBackend
  \/ processEndpoints
  \/ processApis
  \/ processQuota
  \/ processBackendRule
  \/ processHttpRule
  \/ processUsageRule
  \/ processAccessToken
  \/ processTypes
  \/ addGrpcHttpRules
  \/ processTranscodingIgnoredQueryParams
  \/ processApiKeyLocations
  \/ processEmptyJwksUriByOpenID
  \/ processLocalBackendOperations
  \/ processAuthRequirement
  \/ MakeRouteConfig

\* A second call of NewServiceInfoFromServiceConfig and MakeRouteConfig with the
\* same service description object and the same options, after the first
\* finished; the first call's outputs are kept.
Rebuild ==
  /\ pc = "routed"
  /\ build = 1
  /\ first' = Ptr([routeConfig |-> routeConfig, Methods |-> Methods,
                   Operations |-> Operations,
                   LocalBackendCluster |-> LocalBackendCluster,
                   RemoteBackendClusters |-> RemoteBackendClusters])
  /\ build' = 2
  /\ pc' = "start" /\ ran' = <<>> /\ ret' = "pending" /\ err' = ""
  /\ routeConfig' = NoRouteConfig
  /\ UNCHANGED <<input, model>>

NextDet == Next \/ Rebuild

InitDet == serviceConfig \in ConfigsDet /\ opts = BaseOptions /\ Start
SpecDet == InitDet /\ [][NextDet]_vars

InitSel == serviceConfig \in ConfigsSel /\ opts = BaseOptions /\ Start
SpecSel == InitSel /\ [][Next]_vars

\* ------------------------------------------------------------------ claims
Succeeded == pc \in {"done", "routed"}

\* The selectors named by the rule sets that create methods on demand.
RuleSelectors(sc) ==
  {sc.backend[i].selector : i \in DOMAIN sc.backend}
    \cup {sc.http[i].selector : i \in DOMAIN sc.http}
    \cup {sc.usage[i].selector : i \in DOMAIN sc.usage}
    \cup {sc.quota[i].selector : i \in DOMAIN sc.quota}
    \cup {sc.sysparams[i].selector : i \in DOMAIN sc.sysparams}

\* C1 (as claimed): when every rule selector has the form apiName.methodShortName,
\* the build does not crash, and after a successful build Methods holds an entry
\* for every selector a backend, HTTP, usage, quota or system-parameter rule names.
C1_SelectorClosure ==
  (\A sel \in RuleSelectors(serviceConfig) : Len(sel) >= 2) =>
    /\ pc # "panic"
    /\ (Succeeded => \A sel \in RuleSelectors(serviceConfig) : sel \in DOMAIN Methods)

InitBackend == serviceConfig \in ConfigsBackend /\ opts = OptionsHealthz /\ Start
SpecBackend == InitBackend /\ [][Next]_vars

\* The backend rules that name sel, as indices.
BackendRulesFor(sc, sel) == {i \in DOMAIN sc.backend : sc.backend[i].selector = sel}
LastBackendRuleFor(sc, sel) ==
  sc.backend[CHOOSE i \in BackendRulesFor(sc, sel) : \A j \in BackendRulesFor(sc, sel) : j <= i]
IsLocalCluster(m) ==
  Deref(Methods[m].BackendInfo).ClusterName = LocalBackendClusterName(serviceConfig.name)
\* The methods that addOptionMethod wrote as some method's generated CORS method.
CorsCompanions == {Deref(Methods[o].GeneratedCorsMethod) :
                     o \in {x \in DOMAIN Methods : ~IsNil(Methods[x].GeneratedCorsMethod)}}

\* C2 (as claimed): after a successful build every method has a backend binding,
\* and its cluster is the local one if and only if no backend rule names the
\* method's selector.
C2_DefaultBindingAsClaimed ==
  Succeeded =>
    \A m \in DOMAIN Methods :
       /\ ~IsNil(Methods[m].BackendInfo)
       /\ IsLocalCluster(m) <=> BackendRulesFor(serviceConfig, m) = {}

\* C2 (amended): after a successful build every method has a backend binding;
\* for a method that is not a generated CORS method, the cluster is the local
\* one if and only if no backend rule names its selector or the last backend
\* rule that names it has an empty address.
C2_DefaultBinding ==
  Succeeded =>
    \A m \in DOMAIN Methods :
       /\ ~IsNil(Methods[m].BackendInfo)
       /\ m \notin CorsCompanions =>
            (IsLocalCluster(m) <=>
               \/ BackendRulesFor(serviceConfig, m) = {}
               \/ IsNil(LastBackendRuleFor(serviceConfig, m).address))

\* C2 witness: a successful build in which one method is bound to the local
\* cluster by a backend rule without address, one to a remote cluster by a rule
\* with an address, one by default, and a generated CORS method inherited a
\* remote cluster.
C2_Witness ==
  /\ Succeeded
  /\ \E m \in DOMAIN Methods \ CorsCompanions :
        BackendRulesFor(serviceConfig, m) # {} /\ IsLocalCluster(m)
  /\ \E m \in DOMAIN Methods \ CorsCompanions :
        BackendRulesFor(serviceConfig, m) # {} /\ ~IsLocalCluster(m)
  /\ \E m \in DOMAIN Methods : BackendRulesFor(serviceConfig, m) = {} /\ IsLocalCluster(m)
  /\ \E m \in CorsCompanions : BackendRulesFor(serviceConfig, m) = {} /\ ~IsLocalCluster(m)

InitHttp == serviceConfig \in ConfigsHttp /\ opts = BaseOptions /\ Start
SpecHttp == InitHttp /\ [][Next]_vars

IsOptionsRoute(r) ==
  \E k \in DOMAIN r.Match.Headers :
     r.Match.Headers[k].Name = ":method" /\ r.Match.Headers[k].ExactMatch = OPTIONS

\* C3 (as claimed): the per-method routes of a successful build hold at most one
\* route per path matcher (exact path or regex) with :method OPTIONS, whatever
\* mix of explicit OPTIONS rules and generated CORS methods produced them.
\* It fails on two explicit OPTIONS rules of one regex whenever the sort lets
\* both through, and holds if the sort returns its error on them.
C3_OptionsUniqueness ==
  routeConfig.status = "ok" =>
    \A i, j \in DOMAIN routeConfig.Routes :
       (/\ i # j
        /\ IsOptionsRoute(routeConfig.Routes[i])
        /\ IsOptionsRoute(routeConfig.Routes[j]))
         => routeConfig.Routes[i].Match # routeConfig.Routes[j].Match

\* C4 (as claimed): two builds on the same service description and options emit
\* the same route list and the same backend clusters, whatever order the Methods
\* map is visited in.
C4_OrderDeterminism ==
  (/\ build = 2 /\ pc = "routed"
   /\ routeConfig.status = "ok" /\ Deref(first).routeConfig.status = "ok")
    => /\ routeConfig.Routes = Deref(first).routeConfig.Routes
       /\ LocalBackendCluster = Deref(first).LocalBackendCluster
       /\ RemoteBackendClusters = Deref(first).RemoteBackendClusters

\* C5 (as claimed): two successful builds on the same input build the same
\* Methods, field by field (the order of MetricCosts included).
C5_MapOrderNeverInfluences ==
  (build = 2 /\ Succeeded) => Methods = Deref(first).Methods

InitPhases ==
  serviceConfig \in ConfigsPhases /\ opts \in {BaseOptions, BadAddrOptions} /\ Start
SpecPhases == InitPhases /\ [][Next]_vars

\* C6: the phases run in the fixed order; while the build runs no error has
\* been seen; once a phase returns an error it is the last phase that ran, its
\* error is the one returned and the returned ServiceInfo is nil; a ServiceInfo
\* is returned only after all fifteen phases ran without error.
C6_NoPartialModel ==
  /\ ran = SubSeq(PhaseOrder, 1, Len(ran))
  /\ pc \in Range(PhaseOrder) =>
       pc = PhaseOrder[Len(ran) + 1] /\ err = "" /\ ret = "pending"
  /\ pc = "error" =>
       /\ ret = "nil"
       /\ err = IF ran = <<>> THEN "start" ELSE Last(ran)
  /\ ret = "serviceInfo" => ran = PhaseOrder /\ err = ""
  /\ ret = "nil" => pc = "error"

\* A build that processTypes aborted, ninth of the fifteen phases.
C6_Witness ==
  pc = "error" /\ err = "processTypes" /\ Len(ran) = 9 /\ ret = "nil"

InitAuth == serviceConfig \in ConfigsAuth /\ opts \in {BaseOptions, OptionsHealthz} /\ Start
SpecAuth == InitAuth /\ [][Next]_vars

\* The auth rules of the service description with one or more requirements.
RulesWithRequirements(sc) ==
  {i \in DOMAIN sc.authRules : Len(sc.authRules[i].requirements) >= 1}

\* C7: once the fourteen phases before it have run, processAuthRequirement
\* fails the build (error returned, no ServiceInfo) exactly when some auth rule
\* with one or more requirements names a selector without a Method; a rule with
\* no requirement never makes it fail.
C7_UnknownAuthSelectorFatal ==
  ran = PhaseOrder =>
    ((pc = "error" /\ err = "processAuthRequirement" /\ ret = "nil")
       <=> \E i \in RulesWithRequirements(serviceConfig) :
              serviceConfig.authRules[i].selector \notin DOMAIN Methods)

\* A build failed by a rule with a requirement on a selector without a Method,
\* after a rule without requirements on such a selector did not fail it.
C7_Witness ==
  /\ pc = "error" /\ err = "processAuthRequirement"
  /\ Len(serviceConfig.authRules) = 2
  /\ serviceConfig.authRules[1].requirements = <<>>
  /\ serviceConfig.authRules[1].selector \notin DOMAIN Methods
  /\ serviceConfig.authRules[2].requirements # <<>>
  /\ serviceConfig.authRules[2].selector \notin DOMAIN Methods

\* C8: after a successful build a method, generated or not, has RequireAuth
\* exactly when an auth rule with one or more requirements has its selector.
C8_RequireAuthIff ==
  Succeeded =>
    \A m \in DOMAIN Methods :
       Methods[m].RequireAuth
         <=> \E i \in RulesWithRequirements(serviceConfig) :
                serviceConfig.authRules[i].selector = m

\* A successful build in which M1 requires auth, its generated CORS method
\* does not, and the health-check method does by a rule of its own.
C8_Witness ==
  /\ Succeeded
  /\ SelM1 \in DOMAIN Methods /\ Methods[SelM1].RequireAuth
  /\ ~IsNil(Methods[SelM1].GeneratedCorsMethod)
  /\ ~Methods[Deref(Methods[SelM1].GeneratedCorsMethod)].RequireAuth
  /\ HealthCheckOperation \in DOMAIN Methods /\ Methods[HealthCheckOperation].RequireAuth

InitTypes == serviceConfig \in ConfigsTypes /\ opts = BaseOptions /\ Start
SpecTypes == InitTypes /\ [][Next]_vars

\* The types of the service description that are the request type of a
\* declared method.
RequestTypes(sc) ==
  {sc.types[i] : i \in {i \in DOMAIN sc.types :
     \E a \in DOMAIN sc.apis : \E k \in DOMAIN sc.apis[a].methods :
        /\ sc.apis[a].methods[k].request_type_url.prefix = TypeUrlPrefix
        /\ sc.apis[a].methods[k].request_type_url.name = sc.types[i].name}}

\* Two fields of the type have the same name and different json_names.
FieldsClash(t) ==
  \E i, j \in DOMAIN t.fields :
     t.fields[i].name = t.fields[j].name /\ t.fields[i].json_name # t.fields[j].json_name

\* C9 (as claimed): when the request type of some method has two fields with
\* the same name and different json_names, in either order and also when one
\* json_name equals the name, the build does not succeed.
C9_SnakeJsonConflict ==
  (\E t \in RequestTypes(serviceConfig) : FieldsClash(t)) => ~Succeeded

\* The request type found for the method with key m, if any.
HasFoundType(m) ==
  /\ Methods[m].RequestTypeName # ""
  /\ \E i \in DOMAIN serviceConfig.types :
        serviceConfig.types[i].name = Methods[m].RequestTypeName
FoundType(m) ==
  serviceConfig.types[CHOOSE i \in DOMAIN serviceConfig.types :
                         serviceConfig.types[i].name = Methods[m].RequestTypeName]

\* The fields of a type that enter its snake-to-json map, and the map's keys.
RenamingFields(t) == {i \in DOMAIN t.fields : t.fields[i].name # t.fields[i].json_name}
SnakeKeys(t) == {t.fields[i].name : i \in RenamingFields(t)}
JsonNameOf(t, k) ==
  t.fields[CHOOSE i \in RenamingFields(t) : t.fields[i].name = k].json_name

\* The templates of the method with key m.
TemplatesOf(m) ==
  {Deref(Methods[m].HttpRule[i].UriTemplate) :
     i \in {i \in DOMAIN Methods[m].HttpRule : ~IsNil(Methods[m].HttpRule[i].UriTemplate)}}

\* The method with key m and its generated CORS method, if it has one.
WithCompanion(m) ==
  {m} \cup (IF IsNil(Methods[m].GeneratedCorsMethod) THEN {}
            ELSE {Deref(Methods[m].GeneratedCorsMethod)})

OriginVariables(u) == Variables(Deref(ParseUriTemplate(u.Origin).t))

InitGrpc ==
  /\ serviceConfig \in ConfigsGrpc
  /\ opts \in {BaseOptions, GrpcLocalOptions, OptionsHealthz}
  /\ Start
SpecGrpc == InitGrpc /\ [][Next]_vars

\* The selectors apis.methods declares.
DeclaredSelectors(sc) ==
  UNION {{sc.apis[a].name \o <<sc.apis[a].methods[k].name>> :
            k \in DOMAIN sc.apis[a].methods} : a \in DOMAIN sc.apis}

\* The (verb, path) pairs the HTTP rules of the service description configure
\* for the selector sel, rule by rule, each rule's pattern before its
\* additional bindings.
ConfiguredPatterns(sc, sel) ==
  LET F[i \in 0..Len(sc.http)] ==
        IF i = 0 THEN <<>>
        ELSE IF sc.http[i].selector # sel THEN F[i - 1]
        ELSE F[i - 1]
               \o <<[verb |-> HttpMethodOf(sc.http[i].pattern),
                     path |-> sc.http[i].pattern.path]>>
               \o [k \in DOMAIN sc.http[i].additional_bindings |->
                     [verb |-> HttpMethodOf(sc.http[i].additional_bindings[k]),
                      path |-> sc.http[i].additional_bindings[k].path]]
  IN  F[Len(sc.http)]

\* The (verb, original path) pairs of the patterns the method with key m holds.
HeldPatterns(m) ==
  [i \in DOMAIN Methods[m].HttpRule |->
     [verb |-> Methods[m].HttpRule[i].HttpMethod,
      path |-> Deref(Methods[m].HttpRule[i].UriTemplate).Origin]]

\* POST /<apiName>/<methodName> for a declared selector.
GrpcPattern(sel) ==
  [verb |-> POST, path |-> AbsPath(<<Lit(JoinDots(Front(sel))), Lit(Last(sel))>>)]

\* C11: after a successful build a declared method holds the patterns of its
\* HTTP rules, followed by POST /<apiName>/<methodName> when GrpcSupportRequired
\* is set and by nothing when it is not.
C11_GrpcSynthesis ==
  Succeeded =>
    \A sel \in DeclaredSelectors(serviceConfig) :
       /\ sel \in DOMAIN Methods
       /\ HeldPatterns(sel) =
            ConfiguredPatterns(serviceConfig, sel)
              \o (IF GrpcSupportRequired THEN <<GrpcPattern(sel)>> ELSE <<>>)

\* A successful build with a remote gRPC backend in which M1 holds the pattern
\* of its HTTP rule and then its gRPC pattern, and M2 the gRPC pattern alone.
C11_Witness ==
  /\ Succeeded /\ GrpcSupportRequired
  /\ Deref(LocalBackendCluster).Protocol # GRPC
  /\ HeldPatterns(SelM1) = <<[verb |-> GET, path |-> PathA], GrpcPattern(SelM1)>>
  /\ HeldPatterns(SelM2) = <<GrpcPattern(SelM2)>>

InitDeadline == serviceConfig \in ConfigsDeadline /\ opts = BaseOptions /\ Start
SpecDeadline == InitDeadline /\ [][Next]_vars

\* The operation a per-method route was emitted for.
OperationOfRoute(r) == Deref(r.TypedPerFilterConfig.ServiceControl).OperationName

\* C12: every route emitted for a method with IsStreaming has timeout 0,
\* whatever the deadline of its backend binding; every route emitted for
\* another method has the deadline of that method's backend binding as timeout.
C12_StreamingTimeout ==
  routeConfig.status = "ok" =>
    \A i \in DOMAIN routeConfig.Routes :
       LET r == routeConfig.Routes[i]
           m == Methods[OperationOfRoute(r)]
       IN  r.Timeout = IF m.IsStreaming THEN 0 ELSE Deref(m.BackendInfo).Deadline

\* Routes of a streaming M1 bound with a deadline of 2.5 s (timeout 0) next to
\* routes of M2 bound with the same deadline (timeout 2500 ms).
C12_Witness ==
  /\ routeConfig.status = "ok"
  /\ Methods[SelM1].IsStreaming /\ Deref(Methods[SelM1].BackendInfo).Deadline = 2500
  /\ \E i \in DOMAIN routeConfig.Routes :
        OperationOfRoute(routeConfig.Routes[i]) = SelM1 /\ routeConfig.Routes[i].Timeout = 0
  /\ \E i \in DOMAIN routeConfig.Routes :
        OperationOfRoute(routeConfig.Routes[i]) = SelM2 /\ routeConfig.Routes[i].Timeout = 2500

\* The deadline, in milliseconds, a backend rule's deadline d (tenths of a
\* millisecond) resolves to: 15 s for none or a negative one, else the nearest
\* whole millisecond, a half rounding up.
ResolvedDeadline(d) ==
  IF d <= 0 THEN 15000
  ELSE CHOOSE ms \in {d \div 10, d \div 10 + 1} : 10 * ms - 5 <= d /\ d < 10 * ms + 5

\* C13: the backend rules never abort the build over a deadline, and after a
\* successful build a method bound by backend rules has the deadline its last
\* rule resolves to.
C13_DeadlineResolution ==
  /\ err # "processBackendRule"
  /\ Succeeded =>
       \A sel \in {serviceConfig.backend[i].selector : i \in DOMAIN serviceConfig.backend} :
          Deref(Methods[sel].BackendInfo).Deadline =
            ResolvedDeadline(LastBackendRuleFor(serviceConfig, sel).deadline)

\* A successful build with a negative deadline on M1 (resolved to 15 s) and
\* 1.2345 s on M2 (resolved to 1235 ms).
C13_Witness ==
  /\ Succeeded
  /\ Len(serviceConfig.backend) = 2
  /\ serviceConfig.backend[1].selector = SelM1 /\ serviceConfig.backend[1].deadline < 0
  /\ serviceConfig.backend[2].selector = SelM2 /\ serviceConfig.backend[2].deadline = 12345
  /\ Deref(Methods[SelM1].BackendInfo).Deadline = 15000
  /\ Deref(Methods[SelM2].BackendInfo).Deadline = 1235

InitBackendAuth == serviceConfig \in ConfigsBackendAuth /\ opts = BaseOptions /\ Start
SpecBackendAuth == InitBackendAuth /\ [][Next]_vars

\* The audience the claim gives a backend rule.
ClaimedJwtAudience(r) ==
  IF r.authentication.kind = "jwt_audience" THEN r.authentication.jwt_audience
  ELSE IF r.authentication.kind = "disable_auth" /\ r.authentication.disable_auth THEN ""
  ELSE IF IsNil(r.address) THEN ""
  ELSE (IF Deref(r.address).scheme \in {"https", "grpcs"} THEN "https://" ELSE "http://")
         \o Deref(r.address).hostname

\* C14 (as claimed): on GCP, after a successful build a method bound by backend
\* rules has as JWT audience the rule's jwt_audience when it sets one, none
\* when it sets disable_auth true, and otherwise http(s)://<host> for a rule
\* with an address and none for a rule without.
C14_BackendAuthAudience ==
  (Succeeded /\ ~Options.NonGCP) =>
    \A sel \in {serviceConfig.backend[i].selector : i \in DOMAIN serviceConfig.backend} :
       Deref(Methods[sel].BackendInfo).JwtAudience =
         ClaimedJwtAudience(LastBackendRuleFor(serviceConfig, sel))

InitCors == serviceConfig \in ConfigsCors /\ opts \in OptionsCors /\ Start
SpecCors == InitCors /\ [][Next]_vars

\* One of the six CORS fields of the options is set.
AnyCorsFieldSet(o) ==
  \/ o.CorsAllowOrigin # "" \/ o.CorsAllowOriginRegex # "" \/ o.CorsAllowMethods # ""
  \/ o.CorsAllowHeaders # "" \/ o.CorsExposeHeaders # "" \/ o.CorsAllowCredentials

\* C15 (as claimed): with an empty CorsPreset and any of the six CORS fields
\* set, MakeRouteConfig returns an error.
C15_CorsPresetRequired ==
  (pc = "routed" /\ Options.CorsPreset = "" /\ AnyCorsFieldSet(Options))
    => routeConfig.status = "error"

\* The CORS basic scenario: CorsPreset basic, CorsAllowOrigin example.com, the
\* one HTTP rule GET /a, and a route configuration came out.
CorsBasicScenario ==
  /\ Options.CorsPreset = "basic" /\ Options.CorsAllowOrigin = "example.com"
  /\ serviceConfig.http = <<HttpRuleOf(SelM1, "get", PathA)>>
  /\ routeConfig.status = "ok"

\* The route list holds a route for (verb, /a) to the local cluster.
HasRouteForA(verb) ==
  \E i \in DOMAIN routeConfig.Routes :
     LET r == routeConfig.Routes[i]
     IN  /\ r.Match.Path = Ptr([segs |-> <<"a">>, slash |-> FALSE])
         /\ r.Match.Headers = <<[Name |-> ":method", ExactMatch |-> verb]>>
         /\ r.Cluster = LocalBackendClusterName(serviceConfig.name)

\* What the scenario expects apart from the synthetic OPTIONS route: the route
\* for GET /a, the catch-all OPTIONS route behind the per-method routes, and
\* the CORS policy of the virtual host.
CorsBasicPolicyAndCatchAll ==
  /\ HasRouteForA(GET)
  /\ ~IsNil(routeConfig.CorsRoute)
  /\ Deref(routeConfig.CorsRoute).Match =
       [Prefix |-> "/", Headers |-> <<[Name |-> ":method", ExactMatch |-> OPTIONS]>>]
  /\ Deref(routeConfig.CorsRoute).Cluster = LocalBackendClusterName(serviceConfig.name)
  /\ ~IsNil(routeConfig.Cors)
  /\ Deref(routeConfig.Cors).AllowOrigin = [Exact |-> "example.com", SafeRegex |-> ""]

\* C17 (as claimed): in the CORS basic scenario the route list holds the route
\* for GET /a, a synthetic route for OPTIONS /a to the local cluster, the
\* catch-all OPTIONS route last, and the virtual host carries the CORS policy.
C17_CorsBasicScenarioAsClaimed ==
  CorsBasicScenario => (CorsBasicPolicyAndCatchAll /\ HasRouteForA(OPTIONS))

\* The endpoints entry of the service's own name allows CORS.
EndpointAllowsCors(sc) ==
  \E i \in DOMAIN sc.endpoints : sc.endpoints[i].name = sc.name /\ sc.endpoints[i].allow_cors

\* C17 (amended): in the CORS basic scenario the route list holds the route for
\* GET /a and the catch-all OPTIONS route last and the virtual host carries the
\* CORS policy; the synthetic route for OPTIONS /a is there exactly when the
\* endpoints entry named as the service has allow_cors.
C17_CorsBasicScenario ==
  CorsBasicScenario =>
    /\ CorsBasicPolicyAndCatchAll
    /\ HasRouteForA(OPTIONS) <=> EndpointAllowsCors(serviceConfig)

\* The scenario with allow_cors on the service's endpoints entry: all four
\* expected parts are there.
C17_Witness ==
  /\ CorsBasicScenario /\ EndpointAllowsCors(serviceConfig)
  /\ CorsBasicPolicyAndCatchAll /\ HasRouteForA(OPTIONS)
  /\ Len(routeConfig.Routes) = 4

\* The URI regexes of the patterns that methods hold with a verb other than
\* OPTIONS, and of those held with OPTIONS.
RegexesHeld(options) ==
  UNION {{Regex(u) : u \in {Deref(Methods[m].HttpRule[i].UriTemplate) :
                              i \in {i \in DOMAIN Methods[m].HttpRule :
                                       /\ ~IsNil(Methods[m].HttpRule[i].UriTemplate)
                                       /\ (Methods[m].HttpRule[i].HttpMethod = OPTIONS) = options}}} :
         m \in DOMAIN Methods}

\* The methods addOptionMethod created.
GeneratedCorsMethods ==
  {m \in DOMAIN Methods :
     /\ Methods[m].IsGenerated
     /\ \E i \in DOMAIN Methods[m].HttpRule : Methods[m].HttpRule[i].HttpMethod = OPTIONS}

\* C16 (as claimed): after a successful build with AllowCors every URI regex
\* some method holds with a verb other than OPTIONS (synthetic gRPC POST and
\* health-check patterns included) is held with OPTIONS by some method, and
\* without AllowCors no generated CORS method exists.
C16_CorsCompleteness ==
  Succeeded =>
    /\ AllowCors => RegexesHeld(FALSE) \subseteq RegexesHeld(TRUE)
    /\ ~AllowCors => GeneratedCorsMethods = {} /\ CorsCompanions = {}

InitCluster ==
  serviceConfig \in ConfigsCluster /\ opts \in {BaseOptions, GrpcLocalOptions} /\ Start
SpecCluster == InitCluster /\ [][Next]_vars

\* The cluster name of a backend rule's address.
ClusterNameOfAddress(a) == BackendClusterName(ParseURI(a).hostname, ParseURI(a).port)
RemoteClusterNames == {RemoteBackendClusters[i].ClusterName : i \in DOMAIN RemoteBackendClusters}

InitOps == serviceConfig \in ConfigsOps /\ opts \in {BaseOptions, OptionsHealthz} /\ Start
SpecOps == InitOps /\ [][Next]_vars

\* A sequence without the later occurrences of its elements.
FirstAppearances(s) ==
  LET F[i \in 0..Len(s)] ==
        IF i = 0 THEN <<>>
        ELSE IF s[i] \in Range(F[i - 1]) THEN F[i - 1] ELSE Append(F[i - 1], s[i])
  IN  F[Len(s)]
IsPrefixOf(s, t) == Len(s) <= Len(t) /\ SubSeq(t, 1, Len(s)) = s

\* The selectors of apis.methods, in the order of the service description.
DeclaredSelectorSeq(sc) ==
  LET F[a \in 0..Len(sc.apis)] ==
        IF a = 0 THEN <<>>
        ELSE F[a - 1] \o [k \in DOMAIN sc.apis[a].methods |->
                            sc.apis[a].name \o <<sc.apis[a].methods[k].name>>]
  IN  F[Len(sc.apis)]
SelectorsOf(rules) == [i \in DOMAIN rules |-> rules[i].selector]

\* The names the rule phases ask getOrCreateMethod for, in the order they ask:
\* backend and HTTP rules, the CORS methods of the HTTP rules' methods, the
\* health-check method, usage and system-parameter rules.
RuleCreationOrder(sc) ==
  SelectorsOf(sc.backend) \o SelectorsOf(sc.http)
    \o [i \in DOMAIN sc.http |->
          IF IsNil(Methods[sc.http[i].selector].GeneratedCorsMethod)
          THEN sc.http[i].selector
          ELSE Deref(Methods[sc.http[i].selector].GeneratedCorsMethod)]
    \o (IF IsNil(Options.Healthz) THEN <<>> ELSE <<HealthCheckOperation>>)
    \o SelectorsOf(sc.usage) \o SelectorsOf(sc.sysparams)

\* In every state Operations has no duplicate and holds the keys of Methods;
\* after a successful build it is the declared selectors followed by the
\* other names in the order the rule phases first asked for them.
OperationsWellFormed ==
  /\ \A i, j \in DOMAIN Operations : i # j => Operations[i] # Operations[j]
  /\ Range(Operations) = DOMAIN Methods
  /\ Succeeded =>
       /\ IsPrefixOf(FirstAppearances(DeclaredSelectorSeq(serviceConfig)), Operations)
       /\ Operations = FirstAppearances(DeclaredSelectorSeq(serviceConfig)
                                          \o RuleCreationOrder(serviceConfig))

\* A step of the build keeps the entries of Operations and their order, and
\* adds entries at the end only.
OperationsGrowOnly == IsPrefixOf(Operations, Operations')

\* C19: at every point of the build Operations has no duplicate and its entries
\* are the keys of Methods; no step reorders or removes an entry; after the
\* build Operations is the selectors of apis.methods in first-appearance
\* order, then the other selectors in the order rule processing created them.
C19_OperationsOrder == []OperationsWellFormed /\ [][OperationsGrowOnly]_vars

\* A successful build on apis M2, M1, M2 with backend rules on Y, X, an HTTP
\* rule on M1, CORS and the health check: Operations starts M2, M1, Y, X and
\* ends with M1's CORS method and the health-check method.
C19_Witness ==
  /\ Succeeded
  /\ Len(DeclaredSelectorSeq(serviceConfig)) = 3
  /\ Len(Operations) >= 6
  /\ SubSeq(Operations, 1, 4) = <<SelM2, SelM1, SelY, SelX>>
  /\ SelCorsM1 \in Range(Operations)
  /\ Last(Operations) = HealthCheckOperation

\* C20 (as claimed): no step of a build writes into the service description
\* it was given.
C20_BuildIsolation == [][serviceConfig' = serviceConfig]_vars

InitGrpcRoute ==
  serviceConfig \in ConfigsGrpcRoute /\ opts \in {BaseOptions, GrpcLocalOptions} /\ Start
SpecGrpcRoute == InitGrpcRoute /\ [][Next]_vars

\* The emitted routes of an operation, as indices of the route list.
RoutesOfOperation(sel) ==
  {i \in DOMAIN routeConfig.Routes : OperationOfRoute(routeConfig.Routes[i]) = sel}
HasMethodHeader(r, verb) ==
  r.Match.Headers = <<[Name |-> ":method", ExactMatch |-> verb]>>

\* Routes were emitted for a build with gRPC support in which no HTTP rule
\* names M1: M1 holds its synthetic gRPC POST pattern only.
GrpcOnlyScenario ==
  /\ routeConfig.status = "ok"
  /\ GrpcSupportRequired
  /\ ConfiguredPatterns(serviceConfig, SelM1) = <<>>

\* C21 (as claimed): in that scenario exactly one route is emitted for M1; it
\* matches :method POST and, M1 being streaming, has timeout 0.
C21_GrpcRouteAsClaimed ==
  GrpcOnlyScenario =>
    /\ Cardinality(RoutesOfOperation(SelM1)) = 1
    /\ \A i \in RoutesOfOperation(SelM1) :
          /\ HasMethodHeader(routeConfig.Routes[i], POST)
          /\ Methods[SelM1].IsStreaming => routeConfig.Routes[i].Timeout = 0

\* C21 (amended): in that scenario two routes are emitted for M1, one after the
\* other: the first matches the exact path /a/M1, the second the exact path
\* /a/M1/; both match :method POST and, when M1 is streaming, have timeout 0.
C21_GrpcRoute ==
  GrpcOnlyScenario =>
    \E i \in DOMAIN routeConfig.Routes :
       /\ RoutesOfOperation(SelM1) = {i, i + 1}
       /\ routeConfig.Routes[i].Match.Path = Ptr([segs |-> <<"a", "M1">>, slash |-> FALSE])
       /\ routeConfig.Routes[i + 1].Match.Path = Ptr([segs |-> <<"a", "M1">>, slash |-> TRUE])
       /\ \A k \in {i, i + 1} :
             /\ IsNil(routeConfig.Routes[k].Match.SafeRegex)
             /\ HasMethodHeader(routeConfig.Routes[k], POST)
             /\ Methods[SelM1].IsStreaming => routeConfig.Routes[k].Timeout = 0

\* Routes emitted for a streaming M1 without HTTP rule over a local gRPC
\* backend: two routes of M1 with timeout 0.
C21_Witness ==
  /\ GrpcOnlyScenario
  /\ Methods[SelM1].IsStreaming
  /\ Deref(LocalBackendCluster).Protocol = GRPC
  /\ serviceConfig.backend = <<>>
  /\ Cardinality(RoutesOfOperation(SelM1)) = 2
  /\ \A i \in RoutesOfOperation(SelM1) : routeConfig.Routes[i].Timeout = 0

InitApiKey == serviceConfig \in ConfigsApiKey /\ opts = BaseOptions /\ Start
SpecApiKey == InitApiKey /\ [][Next]_vars

\* C22 (as claimed): after a successful build, in every method's
\* ApiKeyLocations no header location comes before a url-query location and no
\* location has a blank name, also when several system-parameter rules name
\* the same selector.
C22_ApiKeyLocationOrder ==
  Succeeded =>
    \A m \in DOMAIN Methods :
       LET locs == Methods[m].ApiKeyLocations
       IN  /\ \A i, j \in DOMAIN locs :
                (locs[i].Header # "" /\ locs[j].Query # "") => j < i
           /\ \A i \in DOMAIN locs : locs[i].Header # "" \/ locs[i].Query # ""

InitPerRoute ==
  serviceConfig \in ConfigsPerRoute /\ opts \in {BaseOptions, OptionsHealthz} /\ Start
SpecPerRoute == InitPerRoute /\ [][Next]_vars

\* The methods that own a route: those holding a pattern that the route's
\* matcher was made from.
OwnersOfRoute(r) ==
  {m \in DOMAIN Methods :
     \E k \in DOMAIN Methods[m].HttpRule :
        r.Match \in Range(makeHttpRouteMatchers(Methods[m].HttpRule[k]))}

\* C23: every emitted per-method route has an owner and carries the
\* service-control config naming the owner's selector, the jwt-authn config
\* (naming that selector) exactly when the owner has RequireAuth, and the
\* backend-auth config (with the audience) exactly when the owner's backend
\* binding has a non-empty JWT audience.
C23_PerRouteFilterBinding ==
  routeConfig.status = "ok" =>
    \A i \in DOMAIN routeConfig.Routes :
       LET r == routeConfig.Routes[i]
           c == r.TypedPerFilterConfig
       IN  /\ OwnersOfRoute(r) # {}
           /\ \A m \in OwnersOfRoute(r) :
                 /\ c.ServiceControl = Ptr([OperationName |-> m])
                 /\ c.JwtAuthn = IF Methods[m].RequireAuth
                                 THEN Ptr([RequirementName |-> m]) ELSE Nil
                 /\ c.BackendAuth =
                      IF Deref(Methods[m].BackendInfo).JwtAudience # ""
                      THEN Ptr([JwtAudience |-> Deref(Methods[m].BackendInfo).JwtAudience])
                      ELSE Nil

\* Routes of M1 with jwt-authn and backend-auth configs, of M1's CORS method
\* with the backend-auth config and no jwt-authn config, of M2 with neither
\* and of the health-check method.
C23_Witness ==
  /\ routeConfig.status = "ok"
  /\ \E i \in DOMAIN routeConfig.Routes :
        LET c == routeConfig.Routes[i].TypedPerFilterConfig
        IN  OwnersOfRoute(routeConfig.Routes[i]) = {SelM1}
              /\ ~IsNil(c.JwtAuthn) /\ ~IsNil(c.BackendAuth)
  /\ \E i \in DOMAIN routeConfig.Routes :
        LET c == routeConfig.Routes[i].TypedPerFilterConfig
        IN  OwnersOfRoute(routeConfig.Routes[i]) = {SelCorsM1}
              /\ IsNil(c.JwtAuthn) /\ ~IsNil(c.BackendAuth)
  /\ \E i \in DOMAIN routeConfig.Routes :
        LET c == routeConfig.Routes[i].TypedPerFilterConfig
        IN  OwnersOfRoute(routeConfig.Routes[i]) = {SelM2}
              /\ IsNil(c.JwtAuthn) /\ IsNil(c.BackendAuth)
  /\ \E i \in DOMAIN routeConfig.Routes :
        OwnersOfRoute(routeConfig.Routes[i]) = {HealthCheckOperation}

InitCorsOwner == serviceConfig \in ConfigsCorsOwner /\ opts = BaseOptions /\ Start
SpecCorsOwner == InitCorsOwner /\ [][Next]_vars

\* The methods that hold a pattern of regex R with the verb OPTIONS
\* (options) or with another verb (~options).
HoldersOfRegex(R, options) ==
  {m \in DOMAIN Methods :
     \E k \in DOMAIN Methods[m].HttpRule :
        /\ ~IsNil(Methods[m].HttpRule[k].UriTemplate)
        /\ Regex(Deref(Methods[m].HttpRule[k].UriTemplate)) = R
        /\ (Methods[m].HttpRule[k].HttpMethod = OPTIONS) = options}

\* The entry of Operations that is in S and comes first.
FirstInOperations(S) ==
  Operations[CHOOSE i \in DOMAIN Operations :
               /\ Operations[i] \in S
               /\ \A j \in DOMAIN Operations : Operations[j] \in S => i <= j]

\* C24 (as claimed): after a successful build with AllowCors, for every regex
\* held with a verb other than OPTIONS, the method holding OPTIONS for it is
\* the CORS method of the first holder in Operations order, with that
\* holder's ApiVersion and backend binding, whatever the order of the HTTP
\* rules.
C24_CorsCompanionOwnership ==
  (Succeeded /\ AllowCors) =>
    \A R \in RegexesHeld(FALSE) :
       LET f == FirstInOperations(HoldersOfRegex(R, FALSE))
           gen == genOperation(Methods[f])
       IN  /\ HoldersOfRegex(R, TRUE) = {gen}
           /\ Methods[f].GeneratedCorsMethod = Ptr(gen)
           /\ Methods[gen].ApiVersion = Methods[f].ApiVersion
           /\ Methods[gen].BackendInfo = Methods[f].BackendInfo

InitHealth == serviceConfig \in ConfigsHealth /\ opts \in OptionsHealth /\ Start
SpecHealth == InitHealth /\ [][Next]_vars

\* C25 (as claimed): after a successful build with a non-empty Options.Healthz
\* the health-check method exists, is generated, holds a GET pattern on the
\* Healthz path with a leading slash, and has SkipServiceControl, whatever the
\* usage rules are.
C25_HealthCheckMethod ==
  (Succeeded /\ ~IsNil(opts.Healthz)) =>
    /\ HealthCheckOperation \in DOMAIN Methods
    /\ Methods[HealthCheckOperation].IsGenerated
    /\ \E k \in DOMAIN Methods[HealthCheckOperation].HttpRule :
          LET p == Methods[HealthCheckOperation].HttpRule[k]
          IN  /\ p.HttpMethod = GET
              /\ ~IsNil(p.UriTemplate)
              /\ Deref(p.UriTemplate).Origin = NormalizedHealthz(Deref(opts.Healthz))
    /\ Methods[HealthCheckOperation].SkipServiceControl

InitTemplates == serviceConfig \in ConfigsTemplates /\ opts \in OptionsTemplates /\ Start
SpecTemplates == InitTemplates /\ [][Next]_vars

\* C26 (as claimed): after a successful build every pattern of every method
\* has a URI template; a path that does not parse, in an HTTP rule, an
\* additional binding, a gRPC path, the CORS re-parse or Options.Healthz,
\* fails the build.
C26_PatternsHaveTemplates ==
  Succeeded =>
    \A m \in DOMAIN Methods : \A k \in DOMAIN Methods[m].HttpRule :
       ~IsNil(Methods[m].HttpRule[k].UriTemplate)

\* The backend rules whose address has the scheme grpc or grpcs.
GrpcBackendRules(sc) ==
  {i \in DOMAIN sc.backend :
     /\ ~IsNil(sc.backend[i].address)
     /\ ParseBackendProtocol(ParseURI(Deref(sc.backend[i].address)).scheme,
                             sc.backend[i].protocol).protocol = GRPC}

\* C27 (as claimed): after a successful build with a backend rule whose address
\* has a gRPC scheme, GrpcSupportRequired is set and the remote cluster of that
\* address has protocol gRPC, also when an earlier rule named the same
\* host:port under another scheme.
C27_GrpcBackendRule ==
  Succeeded =>
    \A i \in GrpcBackendRules(serviceConfig) :
       /\ GrpcSupportRequired
       /\ \E k \in DOMAIN RemoteBackendClusters :
             /\ RemoteBackendClusters[k].ClusterName =
                  ClusterNameOfAddress(Deref(serviceConfig.backend[i].address))
             /\ RemoteBackendClusters[k].Protocol = GRPC

====
